---- MODULE Spec2Model ----
(***************************************************************************)
(* Verification model of the imagine-fs frontend: the streaming run        *)
(* controller (streamGenerateDesigns), the image-set reconciler of         *)
(* handleGenerate (Selections page), and the paged previous/related        *)
(* collections kept in UserState and driven from the Gallery page.         *)
(***************************************************************************)
EXTENDS Integers, Sequences, FiniteSets, TLC

VARIABLES
  \* ---- shared application state (UserState.jsx useState cells)
  imageSets,        \* array of image sets; a hole / undefined element is Undefined
  activeVariant,    \* object: slot -> selected variant tag
  selectedComboIndex,
  relatedImages,
  relatedTotal,
  recentImages,
  recentTotal,
  \* ---- Selections page
  loading,          \* handleGenerate's busy flag
  crashed,          \* a state updater threw while React rendered: the tree is gone
  \* ---- bookkeeping of the fold of image_variant events (history variables)
  base,             \* the collection the current fold started from
  atStart,          \* history variable: the other shared state as it was when
                    \* the current run was started
  expect,           \* slot -> [tags: tag -> last image delivered, merged: a later
                    \*          event for the slot followed the first]
  delivered,        \* number of image_variant events delivered so far
  \* ---- one streamGenerateDesigns call
  script,           \* the byte stream the server answers a generation request with
  phase,            \* idle | opening | reading | flushing | settled | openFailed
  wire,             \* bytes the server has still to deliver
  sent,             \* the whole byte stream of this run (history variable)
  decoderPending,   \* bytes TextDecoder holds back (an unfinished character)
  buffer,           \* let buffer
  lines,            \* lines of the chunk in hand still to be handed to parseLine
  doneSeen,         \* let doneSeen
  aborted,          \* controller.signal.aborted
  signalOpt,        \* the signal option of the call: "none" when the caller passed
                    \* none, else the caller's own signal, "live" or "aborted"
  completion,       \* the handle's done promise: none | pending | resolved | rejected
  settleCount,      \* times the done promise was settled (history variable)
  calls,            \* observer callbacks invoked in this run, in order (history)
  relatedInFlight,  \* related-page requests issued by onDone, not yet answered
  \* ---- Gallery page
  pendingDeletes,   \* delete requests sent, with what each handler's closure saw
  appendHeld,       \* history variable: FALSE when the last step applied a page load
                    \* with append and did not leave the sequence equal to the
                    \* sequence before it followed by the page's new items
  \* ---- Gallery page: local state of the mounted instance
  mounted,          \* the Gallery page is on screen
  activeTab,        \* generated-images | previous-images | related-images
  lastRelatedKey,   \* lastRelatedKey.current
  relatedPage,
  hasMoreRelated,
  loadingRelated,
  recentPage,
  hasMoreRecent,
  loadingRecent,
  recentFetched,
  hasRecent,
  effectDue,        \* a render changed what the previous-tab effect depends on
  fetches,          \* page requests of the Gallery page not yet answered, in
                    \* the order they were issued
  requested,        \* history variable: <<collection, offset>> pairs requested
                    \* since the collection was last reset
  nav,              \* history variable: the goToPage call, the answer to one, or
                    \* the kept sequence of the related key effect, of the last
                    \* step (NoNav otherwise)
  pendingEdit       \* the edit request of handleEditSubmit waiting for its
                    \* response: the closure's selectedComboIndex and the entry
                    \* it read there (NoEdit when none is waiting)

appVars == <<imageSets, activeVariant, selectedComboIndex, relatedImages,
             relatedTotal, recentImages, recentTotal>>
foldVars == <<base, atStart, expect, delivered>>
streamVars == <<script, phase, wire, sent, decoderPending, buffer, lines, doneSeen,
                aborted, signalOpt, completion, settleCount, calls>>
pageVars == <<pendingDeletes, appendHeld>>
localVars == <<relatedPage, hasMoreRelated, loadingRelated, recentPage,
               hasMoreRecent, loadingRecent, recentFetched, hasRecent>>
galleryVars == <<mounted, activeTab, lastRelatedKey, localVars, effectDue,
                 fetches, requested, nav, pendingEdit>>
vars == <<appVars, loading, crashed, foldVars, streamVars, relatedInFlight, pageVars,
          galleryVars>>

-----------------------------------------------------------------------------
(* Values *)

\* undefined / null / absent field
None == "none"
\* an array hole, read back as undefined
Undefined == [undef |-> TRUE]
\* an absent image payload
NoImage == [data |-> None, id |-> None, image_id |-> None, saved_path |-> None]

Image(d) == [data |-> d, id |-> None, image_id |-> None, saved_path |-> None]

\* the page's current selections, theme and type (payload of handleGenerate)
Selections == "selections"
PayloadTheme == "theme"
PayloadEnhancement == "cup"

Max(a, b) == IF a >= b THEN a ELSE b
SetMin(S) == CHOOSE m \in S : \A k \in S : m <= k

\* the falsy values a field of an event takes here: absent/null, and ""
Falsy == {None, ""}

\* a || b
Or(a, b) == IF a \notin Falsy THEN a ELSE b

\* a ?? b
Coalesce(a, b) == IF a # None THEN a ELSE b

-----------------------------------------------------------------------------
(* The reconciler: handleGenerate's onVariant state updater *)

\* arr[i] = v on a JS array (0-based i), padding with holes past the end
ArraySet(arr, i, v) ==
  [k \in 1..Max(Len(arr), i + 1) |->
     IF k = i + 1 THEN v ELSE IF k <= Len(arr) THEN arr[k] ELSE Undefined]

\* hasIndex && index >= 1 ? index - 1 : hasIndex ? index : null  (for hasIndex)
NormalisedIndex(e) == IF e.index >= 1 THEN e.index - 1 ELSE e.index

\* positions findIndex stops at: a matching key, or an undefined element,
\* on which reading .key throws
FindStops(next, variant) ==
  {k \in 1..Len(next) :
     IF next[k] = Undefined THEN TRUE ELSE next[k].key = variant}

\* next.findIndex((i) => i.key === variant) throws a TypeError
FindIndexThrows(next, variant) ==
  /\ FindStops(next, variant) # {}
  /\ next[SetMin(FindStops(next, variant))] = Undefined

\* next.findIndex((i) => i.key === variant), when it does not throw
FindIndex(next, variant) ==
  IF FindStops(next, variant) = {} THEN -1
  ELSE SetMin(FindStops(next, variant)) - 1

\* the updater throws
ResolveThrows(prev, e) == ~e.hasIndex /\ FindIndexThrows(prev, e.variant)

TargetIndex(prev, e) ==
  IF e.hasIndex THEN NormalisedIndex(e) ELSE FindIndex(prev, e.variant)

ResolvedIndex(prev, e) ==
  IF TargetIndex(prev, e) >= 0 THEN TargetIndex(prev, e) ELSE Len(prev)

ImageKey(n) == "image-" \o ToString(n)

\* next[resolvedIndex] || { key, combo, variants: {}, ... }
Existing(prev, e) ==
  LET r == ResolvedIndex(prev, e) IN
  IF r < Len(prev) /\ prev[r + 1] # Undefined THEN prev[r + 1]
  ELSE [key |-> IF e.variant # None THEN e.variant ELSE ImageKey(r + 1),
        combo |-> Or(e.combo, Selections),
        variants |-> <<>>,
        rationale |-> "",
        theme |-> PayloadTheme,
        type |-> PayloadEnhancement,
        id |-> e.id]

\* an identifier taken from the event alone
ImageIdOfEvent(existing, e) ==
  Or(e.id, Or(e.image.id, Or(e.image.image_id, Or(e.image.saved_path, None))))

\* id || image?.id || image?.image_id || image?.saved_path || existing.id || null
ImageId(existing, e) ==
  Or(e.id, Or(e.image.id, Or(e.image.image_id,
     Or(e.image.saved_path, Or(existing.id, None)))))

\* variants[variant] = image
OverlayVariant(variants, e) ==
  [t \in (DOMAIN variants) \cup {e.variant} |->
     IF t = e.variant THEN e.image ELSE variants[t]]

\* a reconciler that overlays whatever image field the event has
MergedVariantsAnyImage(existing, e) ==
  IF e.variant # None
  THEN OverlayVariant(existing.variants, e)
  ELSE existing.variants

\* a reconciler that starts the variants map afresh on every event
MergedVariantsFresh(existing, e) ==
  IF e.variant # None /\ e.image # NoImage
  THEN OverlayVariant(<<>>, e)
  ELSE <<>>

\* { ...(existing.variants || {}) }, then the overlay if (variant && image)
MergedVariants(existing, e) ==
  IF e.variant # None /\ e.image # NoImage
  THEN OverlayVariant(existing.variants, e)
  ELSE existing.variants

MergedEntry(prev, e) ==
  LET existing == Existing(prev, e) IN
  [key |-> existing.key,
   combo |-> Or(e.combo, Or(existing.combo, Selections)),
   variants |-> MergedVariants(existing, e),
   rationale |-> Coalesce(e.rationale, existing.rationale),
   theme |-> PayloadTheme,
   type |-> Or(existing.type, PayloadEnhancement),
   id |-> ImageId(existing, e)]

\* the value the setImageSets updater returns
Reconcile(prev, e) == ArraySet(prev, ResolvedIndex(prev, e), MergedEntry(prev, e))

\* setActiveVariant((prev) => ({...prev, [r]: prev[r] || "original"}))
ActiveVariantAfter(prev, r) ==
  [k \in (DOMAIN prev) \cup {r} |-> IF k \in DOMAIN prev THEN prev[k] ELSE "original"]

-----------------------------------------------------------------------------
(* The paged collections: UserState.jsx *)

PAGE_SIZE == 6

\* setRelatedTotal([]) stores an empty array. In every expression the pages
\* evaluate on a total (x - 1 under Math.max(0, .), x || n, n < x, x === 0)
\* the array [] and the number -1 give the same result.
EmptyArray == -1

RECURSIVE KeepAt(_, _, _)
\* the elements of list at the positions in keep, from position k on, in order
KeepAt(list, keep, k) ==
  IF k > Len(list) THEN <<>>
  ELSE IF k \in keep THEN <<list[k]>> \o KeepAt(list, keep, k + 1)
  ELSE KeepAt(list, keep, k + 1)

\* item?.id ?? JSON.stringify(item)
ItemKey(item) == IF item.id # None THEN [id |-> item.id] ELSE [json |-> item]

\* a merge that filters nothing
UniqueByIdKeepAll(list) == list

\* list.filter: keep an item unless its key was seen at an earlier position
UniqueById(list) ==
  KeepAt(list,
         {k \in 1..Len(list) :
            \A j \in 1..(k - 1) : ItemKey(list[j]) # ItemKey(list[k])},
         1)

\* prev.filter((img) => img.id !== imageId)
WithoutId(list, imageId) ==
  KeepAt(list, {k \in 1..Len(list) : list[k].id # imageId}, 1)

\* list.some((img) => img.id === imageId)
HasId(list, imageId) == \E k \in 1..Len(list) : list[k].id = imageId

\* What fetchRelatedImages returns for a server answer: the answer itself when
\* it carries an items array, an empty page otherwise (also on a failed request)
FetchRelatedResult(resp) ==
  IF resp.kind = "page" THEN [items |-> resp.items, total |-> resp.total]
  ELSE [items |-> <<>>, total |-> 0]

\* a merge that concatenates without filtering
MergePageKeepAll(prev, items, append) ==
  IF append THEN prev \o items ELSE items

\* setRelatedImages((prev) => append ? uniqueById([...prev, ...items])
\*                                     : uniqueById(items))
MergePage(prev, items, append) ==
  IF append THEN UniqueById(prev \o items) ELSE UniqueById(items)

\* What fetchRecentImages returns for a server answer
FetchRecentResult(resp) ==
  IF resp.kind = "page" THEN [items |-> resp.items, total |-> resp.total]
  ELSE [items |-> <<>>, total |-> 0]

\* The recent sequence as fetchRecentImages leaves it
FetchRecentImagesState(prev, resp, offset) ==
  IF resp.kind = "statusFalse" THEN <<>>
  ELSE IF resp.kind = "error" THEN prev
  ELSE IF offset = 0 THEN UniqueById(resp.items)
  ELSE UniqueById(prev \o resp.items)

-----------------------------------------------------------------------------
(* The event frame decoder: streamGenerateDesigns, UserState.jsx *)

\* Bytes and characters are tokens. A record is written kind, optional payload
\* name, closing brace: "v" "1" "}" is {"event":"image_variant","data":<1>}.
NL == "\n"
SP == " "
\* a two-byte UTF-8 character: lead byte, continuation byte, and what it decodes to
LeadByte == "M1"
ContByte == "M2"
TwoByteChar == "M"
\* U+FFFD, which the decoder emits for an ill-formed byte sequence
Replacement == "?"

RECURSIVE DecodeFrom(_, _, _)
\* decoder.decode(value, {stream: true}) from byte k on, with the bytes held
\* back so far: [out |-> characters, pending |-> bytes held back]
DecodeFrom(pending, bytes, k) ==
  IF k > Len(bytes) THEN [out |-> <<>>, pending |-> pending]
  ELSE
    LET b == bytes[k] IN
    IF pending # <<>> THEN
      IF b = ContByte
      THEN LET r == DecodeFrom(<<>>, bytes, k + 1)
           IN [out |-> <<TwoByteChar>> \o r.out, pending |-> r.pending]
      ELSE LET r == DecodeFrom(<<>>, bytes, k)
           IN [out |-> <<Replacement>> \o r.out, pending |-> r.pending]
    ELSE IF b = LeadByte THEN DecodeFrom(<<LeadByte>>, bytes, k + 1)
    ELSE LET r == DecodeFrom(<<>>, bytes, k + 1)
         IN [out |-> <<(IF b = ContByte THEN Replacement ELSE b)>> \o r.out,
             pending |-> r.pending]

\* a decoder that forgets the bytes it held back
DecodeEachChunk(pending, bytes) == DecodeFrom(<<>>, bytes, 1)

Decode(pending, bytes) == DecodeFrom(pending, bytes, 1)

RECURSIVE SplitFrom(_, _, _)
\* text.split("\n") from character k on, cur being the segment under way
SplitFrom(text, k, cur) ==
  IF k > Len(text) THEN <<cur>>
  ELSE IF text[k] = NL THEN <<cur>> \o SplitFrom(text, k + 1, <<>>)
  ELSE SplitFrom(text, k + 1, Append(cur, text[k]))

Split(text) == SplitFrom(text, 1, <<>>)

\* const lines = buffer.split("\n"); buffer = lines.pop() ?? ""
LinesOf(text) == SubSeq(Split(text), 1, Len(Split(text)) - 1)
RestOf(text) == Split(text)[Len(Split(text))]

RECURSIVE TrimStart(_)
TrimStart(s) == IF s # <<>> /\ Head(s) = SP THEN TrimStart(Tail(s)) ELSE s
RECURSIVE TrimEnd(_)
TrimEnd(s) ==
  IF s # <<>> /\ s[Len(s)] = SP THEN TrimEnd(SubSeq(s, 1, Len(s) - 1)) ELSE s
\* line.trim()
Trim(s) == TrimEnd(TrimStart(s))

KindChars == {"p", "v", "e", "d", "u"}
EventName(c) ==
  CASE c = "p" -> "prompt"
    [] c = "v" -> "image_variant"
    [] c = "e" -> "error"
    [] c = "d" -> "done"
    [] OTHER -> "unknown"

\* the data payloads an image_variant record can name: "1" is index 1 with
\* image A; the other is index 2 with an image whose data is one non-ASCII
\* character, as the decoder delivered it
PayloadChars == {"1", TwoByteChar, Replacement}
PayloadData(c) ==
  IF c = "1"
  THEN [hasIndex |-> TRUE, index |-> 1, id |-> None, variant |-> "original",
        image |-> Image("A"), rationale |-> None, combo |-> None]
  ELSE [hasIndex |-> TRUE, index |-> 2, id |-> None, variant |-> "original",
        image |-> Image(c), rationale |-> None, combo |-> None]

\* JSON.parse(line): an event object, another JSON value, or a SyntaxError
JsonParse(line) ==
  LET t == Trim(line) IN
  IF Len(t) = 2 /\ t[1] \in KindChars /\ t[2] = "}"
  THEN [json |-> "object", event |-> EventName(t[1]), data |-> None]
  ELSE IF Len(t) = 3 /\ t[1] = "v" /\ t[2] \in PayloadChars /\ t[3] = "}"
  THEN [json |-> "object", event |-> "image_variant", data |-> t[2]]
  ELSE IF t = <<"n">> THEN [json |-> "null", event |-> None, data |-> None]
  ELSE IF t = <<"7">> THEN [json |-> "number", event |-> None, data |-> None]
  ELSE [json |-> "SyntaxError", event |-> None, data |-> None]

Call(cb, data) == [cb |-> cb, data |-> data]
Malformed == Call("onError", "Malformed stream data")

\* a parseLine that passes over a line JSON.parse rejects
LineActionLenient(line) ==
  LET ev == JsonParse(line) IN
  IF Trim(line) = <<>> THEN "skip"
  ELSE IF ev.json \in {"SyntaxError", "null", "number"} THEN "ignore"
  ELSE IF ev.event = "image_variant" /\ ev.data = None THEN "variantThrows"
  ELSE IF ev.event \in {"prompt", "image_variant", "error", "done"} THEN ev.event
  ELSE "ignore"

\* what parseLine does with a line: skip it, dispatch one callback, or report
\* it malformed (JSON.parse threw, event.event threw on null, or the callback
\* threw inside the try block: onVariant destructures its argument)
LineAction(line) ==
  LET ev == JsonParse(line) IN
  IF Trim(line) = <<>> THEN "skip"
  ELSE IF ev.json \in {"SyntaxError", "null"} THEN "malformed"
  ELSE IF ev.json = "number" THEN "ignore"
  ELSE IF ev.event = "image_variant" /\ ev.data = None THEN "variantThrows"
  ELSE IF ev.event \in {"prompt", "image_variant", "error", "done"} THEN ev.event
  ELSE "ignore"

\* a parseLine that reports an event of a kind it does not know
LineCallsStrict(line) ==
  LET a == LineAction(line) IN
  CASE a = "malformed" -> <<Malformed>>
    [] a = "variantThrows" -> <<Call("onVariant", None), Malformed>>
    [] a = "prompt" -> <<Call("onPrompt", None)>>
    [] a = "image_variant" -> <<Call("onVariant", JsonParse(line).data)>>
    [] a = "error" -> <<Call("onError", None)>>
    [] a = "done" -> <<Call("onDone", None)>>
    [] a = "ignore" -> <<Malformed>>
    [] OTHER -> <<>>

\* the observer callbacks parseLine invokes for a line, in order
LineCalls(line) ==
  LET a == LineAction(line) IN
  CASE a = "malformed" -> <<Malformed>>
    [] a = "variantThrows" -> <<Call("onVariant", None), Malformed>>
    [] a = "prompt" -> <<Call("onPrompt", None)>>
    [] a = "image_variant" -> <<Call("onVariant", JsonParse(line).data)>>
    [] a = "error" -> <<Call("onError", None)>>
    [] a = "done" -> <<Call("onDone", None)>>
    [] OTHER -> <<>>

-----------------------------------------------------------------------------
(* Bounds of the model *)

\* lines in one byte stream
MaxLines == 3
\* image_variant events handed to the reconciler directly
MaxEvents == 3
\* largest position hint an event carries
MaxIndex == 3
\* onDone page requests counted as outstanding
MaxInFlight == 1
\* items in one fetched page
MaxPageItems == 2
\* largest total a server answer declares
MaxTotal == 1
\* delete requests outstanding at a time
MaxPendingDeletes == 1
\* page requests of the Gallery page in flight
MaxFetches == 1
\* the highest page a cursor is taken to
MaxPage == 1
\* items the server holds beyond one full page, per listing
MaxExtra == 2

Min(a, b) == IF a <= b THEN a ELSE b

-----------------------------------------------------------------------------
(* handleGenerate and its observer: Selections page *)

\* expect after an event for slot r
ExpectAfter(r, e) ==
  LET old == IF r \in DOMAIN expect THEN expect[r] ELSE [tags |-> <<>>, merged |-> FALSE]
      new == [tags |-> IF e.variant # None /\ e.image # NoImage
                       THEN [t \in (DOMAIN old.tags) \cup {e.variant} |->
                               IF t = e.variant THEN e.image ELSE old.tags[t]]
                       ELSE old.tags,
              merged |-> r \in DOMAIN expect]
  IN [k \in (DOMAIN expect) \cup {r} |-> IF k = r THEN new ELSE expect[k]]

\* onVariant(e): the two state updates, applied in order when React renders
OnVariantEffect(e) ==
  IF ResolveThrows(imageSets, e)
  THEN /\ crashed' = TRUE
       /\ UNCHANGED <<imageSets, activeVariant, expect>>
  ELSE /\ imageSets' = Reconcile(imageSets, e)
       /\ activeVariant' = ActiveVariantAfter(activeVariant, ResolvedIndex(imageSets, e))
       /\ expect' = ExpectAfter(ResolvedIndex(imageSets, e), e)
       /\ crashed' = crashed

\* onDone(data): alert, navigate, then loadRelatedImages(..., {offset: 0, limit: 6})
OnDoneEffect == relatedInFlight' = Min(relatedInFlight + 1, MaxInFlight)

\* the shared state handleGenerate resets before it opens the stream
Snapshot ==
  [activeVariant |-> activeVariant, selectedComboIndex |-> selectedComboIndex,
   relatedImages |-> relatedImages, relatedTotal |-> relatedTotal]

\* fetch(..., {signal: signal || controller.signal}): the request is aborted
\* by the caller's signal when one was passed, by the controller's otherwise
RequestAborted ==
  IF signalOpt = "none" THEN aborted ELSE signalOpt = "aborted"

\* A run is started: the resets of handleGenerate, then streamGenerateDesigns
\* up to its fetch, called with the signal option sig. The model follows
\* one stream at a time: a run is started when no earlier stream is in flight.
StartRun(sig) ==
  /\ ~crashed
  /\ ~loading
  /\ phase \notin {"opening", "reading", "flushing"}
  /\ loading' = TRUE
  /\ activeVariant' = <<>>
  /\ selectedComboIndex' = 0
  /\ relatedImages' = <<>>
  /\ relatedTotal' = 0
  /\ phase' = "opening"
  /\ wire' = script
  /\ sent' = script
  /\ decoderPending' = <<>>
  /\ buffer' = <<>>
  /\ lines' = <<>>
  /\ doneSeen' = FALSE
  /\ aborted' = FALSE
  /\ completion' = "none"
  /\ settleCount' = 0
  /\ calls' = <<>>
  /\ base' = imageSets
  /\ atStart' = Snapshot
  /\ expect' = <<>>
  /\ appendHeld' = TRUE
  /\ signalOpt' = sig
  /\ UNCHANGED <<imageSets, recentImages, recentTotal, crashed, delivered,
                 script, relatedInFlight, pendingDeletes>>
  /\ UNCHANGED galleryVars

\* handleGenerate up to the fetch of streamGenerateDesigns: it passes the
\* observer callbacks and no signal
HandleGenerate == StartRun("none")

\* the same start by a caller that passes a signal of its own among the options
GenerateWithSignal == StartRun("live")

\* the caller aborts the signal it passed
SignalAbort ==
  /\ ~crashed
  /\ phase = "reading"
  /\ lines = <<>>
  /\ signalOpt = "live"
  /\ signalOpt' = "aborted"
  /\ UNCHANGED <<appVars, loading, crashed, foldVars, script, phase, wire, sent,
                 decoderPending, buffer, lines, doneSeen, aborted, completion,
                 settleCount, calls, relatedInFlight, pageVars>>
  /\ UNCHANGED galleryVars

\* an open failure that is also reported to the observer
OpenFailReported ==
  /\ ~crashed
  /\ phase = "opening"
  /\ phase' = "openFailed"
  /\ loading' = FALSE
  /\ calls' = Append(calls, Call("onError", "Streaming failed"))
  /\ UNCHANGED <<appVars, crashed, foldVars, wire, sent, script, decoderPending, buffer,
                 lines, doneSeen, aborted, completion, settleCount,
                 relatedInFlight, pageVars>>
  /\ UNCHANGED galleryVars
  /\ UNCHANGED signalOpt

\* fetch rejects, or !response.ok, or !response.body: streamGenerateDesigns
\* throws; handleGenerate logs the error and clears its busy flag
OpenFail ==
  /\ ~crashed
  /\ phase = "opening"
  /\ phase' = "openFailed"
  /\ loading' = FALSE
  /\ UNCHANGED <<appVars, crashed, foldVars, wire, sent, script, decoderPending, buffer,
                 lines, doneSeen, aborted, completion, settleCount, calls,
                 relatedInFlight, pageVars>>
  /\ UNCHANGED galleryVars
  /\ UNCHANGED signalOpt

\* the response is ok and has a body: the read loop starts, the handle is returned
OpenOk ==
  /\ ~crashed
  /\ phase = "opening"
  /\ phase' = "reading"
  /\ completion' = "pending"
  /\ atStart' = Snapshot   \* the history is kept for attempts that fail to open
  /\ UNCHANGED <<appVars, loading, crashed, base, expect, delivered, wire, sent, script, decoderPending,
                 buffer, lines, doneSeen, aborted, settleCount, calls,
                 relatedInFlight, pageVars>>
  /\ UNCHANGED galleryVars
  /\ UNCHANGED signalOpt

\* one reader.read() that returns the next n bytes
Read(n) ==
  /\ ~crashed
  /\ phase = "reading"
  /\ lines = <<>>
  /\ ~RequestAborted
  /\ n \in 1..Len(wire)
  /\ LET d == Decode(decoderPending, SubSeq(wire, 1, n))
         text == buffer \o d.out
     IN /\ decoderPending' = d.pending
        /\ lines' = LinesOf(text)
        /\ buffer' = RestOf(text)
  /\ wire' = SubSeq(wire, n + 1, Len(wire))
  /\ UNCHANGED <<appVars, loading, crashed, foldVars, phase, sent, script, doneSeen,
                 aborted, completion, settleCount, calls, relatedInFlight, pageVars>>
  /\ UNCHANGED galleryVars
  /\ UNCHANGED signalOpt

\* parseLine(line) for the next line of the chunk, or for the final buffer
ParseLine ==
  /\ ~crashed
  /\ lines # <<>>
  /\ LET line == Head(lines)
         a == LineAction(line)
     IN /\ calls' = calls \o LineCalls(line)
        /\ doneSeen' = (doneSeen \/ a = "done")
        /\ IF a = "image_variant"
           THEN OnVariantEffect(PayloadData(JsonParse(line).data))
           ELSE UNCHANGED <<imageSets, activeVariant, expect, crashed>>
        /\ IF a = "done" THEN OnDoneEffect ELSE UNCHANGED relatedInFlight
  /\ lines' = Tail(lines)
  /\ appendHeld' = TRUE
  /\ UNCHANGED <<selectedComboIndex, relatedImages, relatedTotal, recentImages,
                 recentTotal, loading, base, atStart, delivered, phase, wire, sent, script,
                 decoderPending, buffer, aborted, completion, settleCount,
                 pendingDeletes>>
  /\ UNCHANGED galleryVars
  /\ UNCHANGED signalOpt

\* reader.read() reports the end of the stream: a non-blank buffer is parsed
\* as a last line
AtEnd ==
  /\ ~crashed
  /\ phase = "reading"
  /\ lines = <<>>
  /\ ~RequestAborted
  /\ wire = <<>>
  /\ phase' = "flushing"
  /\ lines' = IF Trim(buffer) # <<>> THEN <<buffer>> ELSE <<>>
  /\ UNCHANGED <<appVars, loading, crashed, foldVars, wire, sent, script, decoderPending,
                 buffer, doneSeen, aborted, completion, settleCount, calls,
                 relatedInFlight, pageVars>>
  /\ UNCHANGED galleryVars
  /\ UNCHANGED signalOpt

\* if (!doneSeen) onDone?.(); the async function returns: done resolves, and
\* handleGenerate's await returns into its finally block
Finish ==
  /\ ~crashed
  /\ phase = "flushing"
  /\ lines = <<>>
  /\ IF doneSeen
     THEN UNCHANGED <<calls, relatedInFlight>>
     ELSE calls' = Append(calls, Call("onDone", None)) /\ OnDoneEffect
  /\ completion' = "resolved"
  /\ settleCount' = settleCount + 1
  /\ phase' = "settled"
  /\ loading' = FALSE
  /\ UNCHANGED <<appVars, crashed, foldVars, wire, sent, script, decoderPending,
                 buffer, lines, doneSeen, aborted, pageVars>>
  /\ UNCHANGED galleryVars
  /\ UNCHANGED signalOpt

\* handle.cancel(): controller.abort(), while the read loop runs (after the
\* loop has ended the abort reaches nothing)
Cancel ==
  /\ ~crashed
  /\ phase = "reading"
  /\ lines = <<>>
  /\ ~aborted
  /\ aborted' = TRUE
  /\ UNCHANGED <<appVars, loading, crashed, foldVars, phase, wire, sent, script,
                 decoderPending, buffer, lines, doneSeen, completion, settleCount,
                 calls, relatedInFlight, pageVars>>
  /\ UNCHANGED galleryVars
  /\ UNCHANGED signalOpt

\* an abort handled like any other read error
ReadAbortReported ==
  /\ ~crashed
  /\ phase = "reading"
  /\ lines = <<>>
  /\ RequestAborted
  /\ calls' = Append(calls, Call("onError", "Streaming failed"))
  /\ completion' = "rejected"
  /\ settleCount' = settleCount + 1
  /\ phase' = "settled"
  /\ loading' = FALSE
  /\ UNCHANGED <<appVars, crashed, foldVars, wire, sent, script, decoderPending, buffer,
                 lines, doneSeen, aborted, relatedInFlight, pageVars>>
  /\ UNCHANGED galleryVars
  /\ UNCHANGED signalOpt

\* reader.read() rejects with an AbortError
ReadAbort ==
  /\ ~crashed
  /\ phase = "reading"
  /\ lines = <<>>
  /\ RequestAborted
  /\ IF doneSeen
     THEN UNCHANGED <<calls, relatedInFlight>>
     ELSE calls' = Append(calls, Call("onDone", None)) /\ OnDoneEffect
  /\ completion' = "resolved"
  /\ settleCount' = settleCount + 1
  /\ phase' = "settled"
  /\ loading' = FALSE
  /\ UNCHANGED <<appVars, crashed, foldVars, wire, sent, script, decoderPending,
                 buffer, lines, doneSeen, aborted, pageVars>>
  /\ UNCHANGED galleryVars
  /\ UNCHANGED signalOpt

\* a read error that is reported and then swallowed
ReadFailSwallowed ==
  /\ ~crashed
  /\ phase = "reading"
  /\ lines = <<>>
  /\ ~RequestAborted
  /\ calls' = Append(calls, Call("onError", "Streaming failed"))
  /\ completion' = "resolved"
  /\ settleCount' = settleCount + 1
  /\ phase' = "settled"
  /\ loading' = FALSE
  /\ UNCHANGED <<appVars, crashed, foldVars, wire, sent, script, decoderPending, buffer,
                 lines, doneSeen, aborted, relatedInFlight, pageVars>>
  /\ UNCHANGED galleryVars
  /\ UNCHANGED signalOpt

\* a read error after which the busy flag is left as it is
ReadFailKeepsBusy ==
  /\ ~crashed
  /\ phase = "reading"
  /\ lines = <<>>
  /\ ~RequestAborted
  /\ calls' = Append(calls, Call("onError", "Streaming failed"))
  /\ completion' = "rejected"
  /\ settleCount' = settleCount + 1
  /\ phase' = "settled"
  /\ UNCHANGED <<appVars, loading, crashed, foldVars, wire, sent, script,
                 decoderPending, buffer, lines, doneSeen, aborted,
                 relatedInFlight, pageVars>>
  /\ UNCHANGED galleryVars
  /\ UNCHANGED signalOpt

\* reader.read() rejects with any other error: onError, then the error is
\* rethrown, done rejects, handleGenerate logs it and clears its busy flag
ReadFail ==
  /\ ~crashed
  /\ phase = "reading"
  /\ lines = <<>>
  /\ ~RequestAborted
  /\ calls' = Append(calls, Call("onError", "Streaming failed"))
  /\ completion' = "rejected"
  /\ settleCount' = settleCount + 1
  /\ phase' = "settled"
  /\ loading' = FALSE
  /\ UNCHANGED <<appVars, crashed, foldVars, wire, sent, script, decoderPending, buffer,
                 lines, doneSeen, aborted, relatedInFlight, pageVars>>
  /\ UNCHANGED galleryVars
  /\ UNCHANGED signalOpt

-----------------------------------------------------------------------------
(* The Gallery page: tabs, page cursors and their effects.
   Gallery.jsx, Previous.jsx, Sidebar.jsx *)

\* the last step was no goToPage call, no answer to one and no run of the
\* related key effect that kept the sequence
NoNav == [op |-> "none"]

\* no edit request is waiting for its response
NoEdit == [op |-> "none"]

\* JSON.stringify({theme: current.theme, combo: current.combo}), or null
\* when imageSets[selectedComboIndex] is missing
ComboKey(sets, index) ==
  IF index < Len(sets) /\ sets[index + 1] # Undefined
  THEN sets[index + 1].theme \o "|" \o sets[index + 1].combo
  ELSE None

CurrentKey == ComboKey(imageSets, selectedComboIndex)

\* total || items.length
EffectiveTotal(total, items) == IF total # 0 THEN total ELSE Len(items)

\* (page + 1) * PAGE_SIZE < effectiveTotal
CoveredHasMore(page, total, items) ==
  (page + 1) * PAGE_SIZE < EffectiveTotal(total, items)

\* a goToPage that takes no page for loaded
NeverLoaded(page, items) == FALSE

\* const alreadyLoaded = items.length >= offset + PAGE_SIZE
AlreadyLoaded(page, items) == Len(items) >= page * PAGE_SIZE + PAGE_SIZE

\* goToPage up to its await: what it decides on its arguments
GoToPage(page, items, total, busy) ==
  IF total = 0 /\ Len(items) = 0
  THEN [kind |-> "empty", hasMore |-> FALSE, offset |-> page * PAGE_SIZE]
  ELSE IF AlreadyLoaded(page, items)
  THEN [kind |-> "loaded", hasMore |-> CoveredHasMore(page, total, items),
        offset |-> page * PAGE_SIZE]
  ELSE IF busy
  THEN [kind |-> "busy", hasMore |-> FALSE, offset |-> page * PAGE_SIZE]
  ELSE [kind |-> "fetch", hasMore |-> FALSE, offset |-> page * PAGE_SIZE]

\* a has_more that stays true when the fetch failed, so that the page is asked
\* for again
RecentHasMoreOnFailure(resp, offset, limit) ==
  IF resp.kind = "page" THEN offset + limit < resp.total /\ Len(resp.items) > 0
  ELSE TRUE

\* the has_more fetchRecentImages returns
RecentHasMore(resp, offset, limit) ==
  IF resp.kind = "page" THEN offset + limit < resp.total /\ Len(resp.items) > 0
  ELSE FALSE

\* Boolean(data.has_more) on what fetchRelatedImages returns: the server's
\* answer as it is when it carries an items array
RelatedHasMore(resp, offset, limit) ==
  IF resp.kind = "page" THEN resp.has_more = "true" ELSE FALSE

\* a key-change effect that keeps no sequence
KeepsNothing(items) == FALSE

\* relatedImages.length > 0: the key-change effect takes a populated sequence
\* for the prefetch of the focused image set
KeepsPrefetched(items) == Len(items) > 0

\* the related key changed and its effect has not run yet
KeyChanged ==
  /\ mounted
  /\ activeTab = "related-images"
  /\ CurrentKey # None
  /\ CurrentKey # lastRelatedKey

\* the effects of the last render have run
EffectsIdle == ~effectDue /\ ~KeyChanged

\* the previous-tab effect runs again after this step: the step changed the
\* context state or one of loadingRecent, recentFetched (it returns at once
\* on another tab)
DueAfter(changed) == mounted /\ activeTab = "previous-images" /\ changed

\* requests issued by an instance of the page that has since unmounted
Orphaned(fs) == [k \in 1..Len(fs) |-> [fs[k] EXCEPT !.live = FALSE]]

\* one request fewer
RemoveAt(fs, i) == SubSeq(fs, 1, i - 1) \o SubSeq(fs, i + 1, Len(fs))

\* the pairs of one collection taken out of the requested pairs
Forget(seen, coll) == {r \in seen : r[1] # coll}

\* useState initial values of a Gallery instance; an instance that unmounts
\* loses its state, the next one starts from these
LocalReset ==
  /\ activeTab' = "generated-images"
  /\ lastRelatedKey' = None
  /\ relatedPage' = 0
  /\ hasMoreRelated' = TRUE
  /\ loadingRelated' = FALSE
  /\ recentPage' = 0
  /\ hasMoreRecent' = TRUE
  /\ loadingRecent' = FALSE
  /\ recentFetched' = FALSE
  /\ hasRecent' = FALSE
  /\ effectDue' = FALSE

-----------------------------------------------------------------------------
(* Page loads, deletes and resets: UserState.jsx, Gallery.jsx, Modal.jsx *)

\* What the claim about appending expects of a page merged into prev: prev,
\* then the page's items whose identifier prev does not hold, in page order
\* (an identifier the page repeats once)
AppendNew(prev, items) ==
  prev \o KeepAt(items,
                 {k \in 1..Len(items) :
                    /\ ~HasId(prev, items[k].id)
                    /\ \A j \in 1..(k - 1) : items[j].id # items[k].id},
                 1)

\* the related sequence after loadRelatedImages merged the answer into prev
RelatedImagesAfter(prev, append, resp) ==
  MergePage(prev, FetchRelatedResult(resp).items, append)

\* the recent sequence after loadRecentImages: fetchRecentImages stores the
\* page first, then loadRecentImages merges it
RecentImagesAfter(prev, offset, append, resp) ==
  MergePage(FetchRecentImagesState(prev, resp, offset),
            FetchRecentResult(resp).items, append)

\* loadRelatedImages(payload, {offset, limit, append}) once the answer is in
LoadRelatedApply(append, resp) ==
  LET data == FetchRelatedResult(resp) IN
  /\ relatedImages' = RelatedImagesAfter(relatedImages, append, resp)
  /\ relatedTotal' = data.total
  /\ appendHeld' = (append => relatedImages' = AppendNew(relatedImages, data.items))

\* loadRecentImages({offset, limit, append}) once the answer is in:
\* fetchRecentImages stores the page first, then loadRecentImages merges it
LoadRecentApply(offset, append, resp) ==
  LET data == FetchRecentResult(resp) IN
  /\ recentImages' = RecentImagesAfter(recentImages, offset, append, resp)
  /\ recentTotal' = data.total
  /\ appendHeld' = (append => recentImages' = AppendNew(recentImages, data.items))

\* the answer to the page request handleGenerate's onDone issued
PrefetchResponse(resp) ==
  /\ UNCHANGED pendingEdit
  /\ ~crashed
  /\ lines = <<>>
  /\ relatedInFlight > 0
  /\ relatedInFlight' = relatedInFlight - 1
  /\ LoadRelatedApply(FALSE, resp)
  /\ effectDue' = DueAfter(TRUE)
  /\ nav' = NoNav
  /\ UNCHANGED <<imageSets, activeVariant, selectedComboIndex, recentImages,
                 recentTotal, loading, crashed, foldVars, streamVars,
                 pendingDeletes, mounted, activeTab, lastRelatedKey, localVars,
                 fetches, requested>>

\* the answer to a page request of the related tab (goToPage via loadRelated)
RelatedPageResponse(resp) ==
  /\ ~crashed
  /\ lines = <<>>
  /\ LoadRelatedApply(TRUE, resp)
  /\ UNCHANGED <<imageSets, activeVariant, selectedComboIndex, recentImages,
                 recentTotal, loading, crashed, foldVars, streamVars,
                 relatedInFlight, pendingDeletes>>
  /\ UNCHANGED galleryVars

\* the answer to the Previous component's mount-time loadRecentImages()
RecentMountResponse(resp) ==
  /\ ~crashed
  /\ lines = <<>>
  /\ LoadRecentApply(0, FALSE, resp)
  /\ UNCHANGED <<imageSets, activeVariant, selectedComboIndex, relatedImages,
                 relatedTotal, loading, crashed, foldVars, streamVars,
                 relatedInFlight, pendingDeletes>>
  /\ UNCHANGED galleryVars

\* the answer to a page request of the previous tab (goToPage via loadRecent)
RecentPageResponse(offset, resp) ==
  /\ ~crashed
  /\ lines = <<>>
  /\ LoadRecentApply(offset, TRUE, resp)
  /\ UNCHANGED <<imageSets, activeVariant, selectedComboIndex, relatedImages,
                 relatedTotal, loading, crashed, foldVars, streamVars,
                 relatedInFlight, pendingDeletes>>
  /\ UNCHANGED galleryVars

\* handleDeleteImage(imageId) up to its await: the request is sent; the
\* handler's closure holds the sequences of the render it was created in
DeleteClick(imageId) ==
  /\ ~crashed
  /\ lines = <<>>
  /\ HasId(recentImages, imageId) \/ HasId(relatedImages, imageId)
  /\ Cardinality(pendingDeletes) < MaxPendingDeletes
  /\ pendingDeletes' = pendingDeletes \cup
       {[id |-> imageId,
         wasInRecent |-> HasId(recentImages, imageId),
         wasInRelated |-> HasId(relatedImages, imageId)]}
  /\ appendHeld' = TRUE
  /\ UNCHANGED <<appVars, loading, crashed, foldVars, streamVars, relatedInFlight>>
  /\ UNCHANGED galleryVars

\* removeImage resolved: both sequences are filtered, the totals adjusted
DeleteSucceeds(d) ==
  /\ ~crashed
  /\ lines = <<>>
  /\ d \in pendingDeletes
  /\ pendingDeletes' = pendingDeletes \ {d}
  /\ recentImages' = WithoutId(recentImages, d.id)
  /\ relatedImages' = WithoutId(relatedImages, d.id)
  /\ recentTotal' = IF d.wasInRecent THEN Max(0, recentTotal - 1) ELSE recentTotal
  /\ relatedTotal' = IF d.wasInRelated THEN Max(0, relatedTotal - 1) ELSE relatedTotal
  /\ appendHeld' = TRUE
  /\ UNCHANGED <<imageSets, activeVariant, selectedComboIndex, loading, crashed,
                 foldVars, streamVars, relatedInFlight>>
  /\ UNCHANGED galleryVars

\* removeImage threw: an alert, no state change
DeleteFails(d) ==
  /\ ~crashed
  /\ lines = <<>>
  /\ d \in pendingDeletes
  /\ pendingDeletes' = pendingDeletes \ {d}
  /\ appendHeld' = TRUE
  /\ UNCHANGED <<appVars, loading, crashed, foldVars, streamVars, relatedInFlight>>
  /\ UNCHANGED galleryVars

\* Modal.handleDelete after deleteAll() resolved
DeleteAll ==
  /\ ~crashed
  /\ lines = <<>>
  /\ recentTotal' = 0
  /\ relatedTotal' = 0
  /\ relatedImages' = <<>>
  /\ recentImages' = <<>>
  /\ appendHeld' = TRUE
  /\ UNCHANGED <<imageSets, activeVariant, selectedComboIndex, loading, crashed,
                 foldVars, streamVars, relatedInFlight, pendingDeletes>>
  /\ UNCHANGED galleryVars

\* Gallery's New Generation button. It navigates to /studio, where the
\* Selections page mounts anew with its busy flag false; a stream that an
\* earlier instance of the page started stays in flight.
HandleNewGen ==
  /\ UNCHANGED pendingEdit
  /\ ~crashed
  /\ lines = <<>>
  /\ imageSets' = <<>>
  /\ relatedImages' = <<>>
  /\ selectedComboIndex' = 0
  /\ activeVariant' = <<>>
  /\ relatedTotal' = EmptyArray
  /\ loading' = FALSE
  /\ base' = <<>>
  /\ atStart' = atStart
  /\ expect' = <<>>
  /\ appendHeld' = TRUE
  /\ mounted' = FALSE
  /\ LocalReset
  /\ fetches' = Orphaned(fetches)
  /\ requested' = Forget(requested, "related")
  /\ nav' = NoNav
  /\ UNCHANGED <<recentImages, recentTotal, crashed, delivered,
                 streamVars, relatedInFlight, pendingDeletes>>

-----------------------------------------------------------------------------
(* The Gallery page: its handlers and effects *)

\* loadRelated(page) up to the await inside goToPage. It is called with the
\* sequence, total and busy flag of the render its callback belongs to; cursor
\* and more are what the cursor and the has-more flag hold when it is called,
\* seen the pairs requested so far.
LoadRelated(page, cursor, more, seen) ==
  LET go == GoToPage(page, relatedImages, relatedTotal, loadingRelated)
      f == [coll |-> "related", offset |-> go.offset, key |-> CurrentKey,
            via |-> "page", page |-> page, live |-> TRUE]
  IN
  /\ UNCHANGED pendingEdit
  /\ go.kind = "fetch" => Len(fetches) < MaxFetches
  /\ relatedPage' = IF go.kind \in {"empty", "loaded"} THEN page ELSE cursor
  /\ hasMoreRelated' = IF go.kind \in {"empty", "loaded"} THEN go.hasMore ELSE more
  /\ loadingRelated' = (loadingRelated \/ go.kind = "fetch")
  /\ fetches' = IF go.kind = "fetch" THEN Append(fetches, f) ELSE fetches
  /\ requested' = IF go.kind = "fetch"
                  THEN seen \cup {<<"related", CurrentKey, go.offset>>}
                  ELSE seen
  /\ nav' = [op |-> "call", coll |-> "related", page |-> page, kind |-> go.kind,
             len |-> Len(relatedImages), total |-> relatedTotal]

\* The effect on the related query key (Gallery.jsx:291-326)
RelatedKeyEffect ==
  /\ UNCHANGED pendingEdit
  /\ ~crashed
  /\ lines = <<>>
  /\ KeyChanged
  /\ lastRelatedKey' = CurrentKey
  /\ IF KeepsPrefetched(relatedImages)
     THEN /\ relatedPage' = 0
          /\ hasMoreRelated' =
               (Len(relatedImages) < EffectiveTotal(relatedTotal, relatedImages))
          /\ nav' = [op |-> "kept", key |-> CurrentKey]
          /\ UNCHANGED <<relatedImages, relatedTotal, loadingRelated, fetches,
                         requested>>
     ELSE /\ relatedImages' = <<>>
          /\ relatedTotal' = 0
          /\ LoadRelated(0, 0, TRUE, Forget(requested, "related"))
  /\ UNCHANGED <<imageSets, activeVariant, selectedComboIndex, recentImages,
                 recentTotal, loading, crashed, foldVars, streamVars,
                 relatedInFlight, pageVars, mounted, activeTab, recentPage,
                 hasMoreRecent, loadingRecent, recentFetched, hasRecent, effectDue>>

\* The Previous and Next buttons of the related tab
RelatedNav(page) ==
  /\ ~crashed
  /\ lines = <<>>
  /\ mounted
  /\ EffectsIdle
  /\ activeTab = "related-images"
  /\ ~loadingRelated
  /\ \/ page = relatedPage + 1 /\ hasMoreRelated
     \/ page = Max(relatedPage - 1, 0) /\ relatedPage # 0
  /\ page <= MaxPage
  /\ CurrentKey # None
  /\ LoadRelated(page, relatedPage, hasMoreRelated, requested)
  /\ UNCHANGED <<appVars, loading, crashed, foldVars, streamVars,
                 relatedInFlight, pageVars, mounted, activeTab, lastRelatedKey,
                 recentPage, hasMoreRecent, loadingRecent, recentFetched,
                 hasRecent, effectDue>>

\* The Previous and Next buttons of the previous tab: loadRecent(page), which
\* hands goToPage the sequence and total of recentRef and the busy flag of the
\* render, and marks the listing fetched once goToPage has returned
RecentNav(page) ==
  LET go == GoToPage(page, recentImages, recentTotal, loadingRecent)
      f == [coll |-> "recent", offset |-> go.offset, key |-> "recent",
            via |-> "page", page |-> page, live |-> TRUE]
  IN
  /\ UNCHANGED pendingEdit
  /\ ~crashed
  /\ lines = <<>>
  /\ mounted
  /\ EffectsIdle
  /\ activeTab = "previous-images"
  /\ ~loadingRecent
  /\ \/ page = recentPage + 1 /\ hasMoreRecent
     \/ page = Max(recentPage - 1, 0) /\ recentPage # 0
  /\ page <= MaxPage
  /\ go.kind = "fetch" => Len(fetches) < MaxFetches
  /\ recentPage' = IF go.kind \in {"empty", "loaded"} THEN page ELSE recentPage
  /\ hasMoreRecent' = IF go.kind \in {"empty", "loaded"} THEN go.hasMore
                      ELSE hasMoreRecent
  /\ loadingRecent' = (go.kind = "fetch")
  /\ recentFetched' = (recentFetched \/ go.kind # "fetch")
  /\ fetches' = IF go.kind = "fetch" THEN Append(fetches, f) ELSE fetches
  /\ requested' = IF go.kind = "fetch"
                  THEN requested \cup {<<"recent", "recent", go.offset>>}
                  ELSE requested
  /\ nav' = [op |-> "call", coll |-> "recent", page |-> page, kind |-> go.kind,
             len |-> Len(recentImages), total |-> recentTotal]
  /\ effectDue' = DueAfter(loadingRecent' # loadingRecent
                           \/ recentFetched' # recentFetched)
  /\ UNCHANGED <<appVars, loading, crashed, foldVars, streamVars,
                 relatedInFlight, pageVars, mounted, activeTab, lastRelatedKey,
                 relatedPage, hasMoreRelated, loadingRelated, hasRecent>>

\* The effects that run when the previous tab has rendered: the mount effect
\* of the Previous component (Previous.jsx:32-41), then the previous-tab effect
\* of the page (Gallery.jsx:328-340), both on the values of that render
PreviousTabEffect ==
  LET mountLoad == activeTab = "previous-images" /\ ~hasRecent
      idleEmpty == Len(recentImages) = 0 /\ ~loadingRecent
      go == GoToPage(0, recentImages, recentTotal, loadingRecent)
      first == idleEmpty /\ ~recentFetched
      m == [coll |-> "recent", offset |-> 0, key |-> "recent", via |-> "mount",
            page |-> 0, live |-> TRUE]
      f == [coll |-> "recent", offset |-> go.offset, key |-> "recent",
            via |-> "page", page |-> 0, live |-> TRUE]
      seen == IF mountLoad THEN {<<"recent", "recent", 0>>}
                                  \cup Forget(requested, "recent")
              ELSE requested
  IN
  /\ UNCHANGED pendingEdit
  /\ ~crashed
  /\ lines = <<>>
  /\ mounted
  /\ effectDue
  /\ IF activeTab # "previous-images"
     THEN /\ effectDue' = FALSE
          /\ nav' = NoNav
          /\ UNCHANGED <<recentPage, hasMoreRecent, loadingRecent, recentFetched,
                         hasRecent, fetches, requested>>
     ELSE /\ hasRecent' = TRUE
          /\ fetches' = fetches \o (IF mountLoad THEN <<m>> ELSE <<>>)
                                \o (IF first /\ go.kind = "fetch" THEN <<f>> ELSE <<>>)
          /\ Len(fetches') <= MaxFetches
          /\ requested' = IF first /\ go.kind = "fetch"
                          THEN seen \cup {<<"recent", "recent", go.offset>>}
                          ELSE seen
          /\ loadingRecent' = (loadingRecent \/ mountLoad
                               \/ (first /\ go.kind = "fetch"))
          /\ recentFetched' = (recentFetched \/ (first /\ go.kind # "fetch"))
          /\ recentPage' = IF first /\ go.kind = "empty" THEN 0 ELSE recentPage
          /\ hasMoreRecent' =
               IF first THEN (IF go.kind = "empty" THEN FALSE ELSE hasMoreRecent)
               ELSE IF idleEmpty THEN FALSE
               ELSE Len(recentImages) < recentTotal
          /\ nav' = IF first
                    THEN [op |-> "call", coll |-> "recent", page |-> 0,
                          kind |-> go.kind, len |-> Len(recentImages),
                          total |-> recentTotal]
                    ELSE NoNav
          /\ effectDue' = (loadingRecent' # loadingRecent
                           \/ recentFetched' # recentFetched)
  /\ UNCHANGED <<appVars, loading, crashed, foldVars, streamVars,
                 relatedInFlight, pageVars, mounted, activeTab, lastRelatedKey,
                 relatedPage, hasMoreRelated, loadingRelated>>

\* the answer to the Previous component's loadRecentImages(): the page
\* replaces the sequence, then setLoading(false)
RecentMountAnswer(i, resp) ==
  /\ UNCHANGED pendingEdit
  /\ ~crashed
  /\ lines = <<>>
  /\ EffectsIdle
  /\ i \in 1..Len(fetches)
  /\ fetches[i].via = "mount"
  /\ LoadRecentApply(0, FALSE, resp)
  /\ fetches' = RemoveAt(fetches, i)
  /\ loadingRecent' = IF fetches[i].live THEN FALSE ELSE loadingRecent
  /\ effectDue' = DueAfter(TRUE)
  /\ nav' = NoNav
  /\ UNCHANGED <<imageSets, activeVariant, selectedComboIndex, relatedImages,
                 relatedTotal, loading, crashed, foldVars, streamVars,
                 relatedInFlight, pendingDeletes, mounted, activeTab,
                 lastRelatedKey, relatedPage, hasMoreRelated, loadingRelated,
                 recentPage, hasMoreRecent, recentFetched, hasRecent, requested>>

\* the answer to a page request goToPage issued for the previous listing
RecentPageAnswer(i, resp) ==
  LET f == fetches[i] IN
  /\ UNCHANGED pendingEdit
  /\ ~crashed
  /\ lines = <<>>
  /\ EffectsIdle
  /\ i \in 1..Len(fetches)
  /\ f.via = "page"
  /\ f.coll = "recent"
  /\ LoadRecentApply(f.offset, TRUE, resp)
  /\ fetches' = RemoveAt(fetches, i)
  /\ hasMoreRecent' = IF f.live THEN RecentHasMore(resp, f.offset, PAGE_SIZE)
                      ELSE hasMoreRecent
  /\ recentPage' = IF f.live THEN f.page ELSE recentPage
  /\ loadingRecent' = IF f.live THEN FALSE ELSE loadingRecent
  /\ recentFetched' = IF f.live THEN TRUE ELSE recentFetched
  /\ effectDue' = DueAfter(TRUE)
  /\ nav' = [op |-> "answer", coll |-> "recent", offset |-> f.offset,
             len |-> Len(FetchRecentResult(resp).items),
             total |-> FetchRecentResult(resp).total,
             field |-> resp.has_more, live |-> f.live,
             failed |-> resp.kind = "error"]
  /\ UNCHANGED <<imageSets, activeVariant, selectedComboIndex, relatedImages,
                 relatedTotal, loading, crashed, foldVars, streamVars,
                 relatedInFlight, pendingDeletes, mounted, activeTab,
                 lastRelatedKey, relatedPage, hasMoreRelated, loadingRelated,
                 hasRecent, requested>>

\* the answer to a page request goToPage issued for the related listing
RelatedPageAnswer(i, resp) ==
  LET f == fetches[i] IN
  /\ UNCHANGED pendingEdit
  /\ ~crashed
  /\ lines = <<>>
  /\ EffectsIdle
  /\ i \in 1..Len(fetches)
  /\ f.via = "page"
  /\ f.coll = "related"
  /\ LoadRelatedApply(TRUE, resp)
  /\ fetches' = RemoveAt(fetches, i)
  /\ hasMoreRelated' = IF f.live THEN RelatedHasMore(resp, f.offset, PAGE_SIZE)
                       ELSE hasMoreRelated
  /\ relatedPage' = IF f.live THEN f.page ELSE relatedPage
  /\ loadingRelated' = IF f.live THEN FALSE ELSE loadingRelated
  /\ effectDue' = DueAfter(TRUE)
  /\ nav' = [op |-> "answer", coll |-> "related", offset |-> f.offset,
             len |-> Len(FetchRelatedResult(resp).items),
             total |-> FetchRelatedResult(resp).total,
             field |-> resp.has_more, live |-> f.live,
             failed |-> resp.kind = "error"]
  /\ UNCHANGED <<imageSets, activeVariant, selectedComboIndex, recentImages,
                 recentTotal, loading, crashed, foldVars, streamVars,
                 relatedInFlight, pendingDeletes, mounted, activeTab,
                 lastRelatedKey, recentPage, hasMoreRecent, loadingRecent,
                 recentFetched, hasRecent, requested>>

\* A tab link of the sidebar (Sidebar.jsx:65-106)
SetActiveTab(tab) ==
  /\ UNCHANGED pendingEdit
  /\ ~crashed
  /\ lines = <<>>
  /\ mounted
  /\ EffectsIdle
  /\ tab # activeTab
  /\ activeTab' = tab
  /\ effectDue' = (tab = "previous-images")
  /\ nav' = NoNav
  /\ UNCHANGED <<appVars, loading, crashed, foldVars, streamVars,
                 relatedInFlight, pageVars, mounted, lastRelatedKey, localVars,
                 fetches, requested>>

\* Use on a card of the previous or the related tab (handleUseImage)
HandleUseImage(image) ==
  /\ UNCHANGED pendingEdit
  /\ ~crashed
  /\ lines = <<>>
  /\ mounted
  /\ EffectsIdle
  /\ \/ /\ activeTab = "previous-images"
        /\ recentPage * PAGE_SIZE < Len(recentImages)
        /\ image = recentImages[recentPage * PAGE_SIZE + 1]
     \/ /\ activeTab = "related-images"
        /\ relatedPage * PAGE_SIZE < Len(relatedImages)
        /\ image = relatedImages[relatedPage * PAGE_SIZE + 1]
  /\ imageSets' = <<image>>
  /\ selectedComboIndex' = 0
  /\ activeVariant' = <<>>
  /\ activeTab' = "generated-images"
  /\ effectDue' = FALSE
  /\ nav' = NoNav
  /\ UNCHANGED <<relatedImages, relatedTotal, recentImages, recentTotal, loading,
                 crashed, foldVars, streamVars, relatedInFlight, pageVars,
                 mounted, lastRelatedKey, localVars, fetches, requested>>

\* the image an edit response carries in variants.edited
EditedVariant == Image("edited")

\* what POST /edit comes back with: a body with variants, a body without
\* (or no body), a failure (the request rejects or the status is no success)
EditResponses == {"edited", "empty", "error"}

\* {...item, variants: {...item.variants, edited: editedVariant}}
WithEdited(item) ==
  LET variants == IF "variants" \in DOMAIN item THEN item.variants ELSE <<>>
      edited == [t \in (DOMAIN variants) \cup {"edited"} |->
                   IF t = "edited" THEN EditedVariant ELSE variants[t]]
  IN [f \in (DOMAIN item) \cup {"variants"} |->
        IF f = "variants" THEN edited ELSE item[f]]

\* prev.map((item, idx) => idx === selectedComboIndex ? {...} : item): map
\* passes over the holes of prev
EditApplied(prev, index) ==
  [k \in 1..Len(prev) |->
     IF k = index + 1 /\ prev[k] # Undefined THEN WithEdited(prev[k]) ELSE prev[k]]

\* setActiveVariant(prev => ({...prev, [selectedComboIndex]: "edited"}))
ActiveVariantEdited(prev, index) ==
  [k \in (DOMAIN prev) \cup {index} |-> IF k = index THEN "edited" ELSE prev[k]]

\* Apply Edit on the generated tab (handleEditSubmit up to its await): the
\* button is disabled while loadingEdit holds; without a current entry the
\* handler returns before the request
HandleEditSubmit ==
  /\ ~crashed
  /\ lines = <<>>
  /\ mounted
  /\ EffectsIdle
  /\ activeTab = "generated-images"
  /\ pendingEdit = NoEdit
  /\ selectedComboIndex < Len(imageSets)
  /\ imageSets[selectedComboIndex + 1] # Undefined
  /\ pendingEdit' = [op |-> "pending", index |-> selectedComboIndex,
                     entry |-> imageSets[selectedComboIndex + 1]]
  /\ nav' = NoNav
  /\ UNCHANGED <<appVars, loading, crashed, foldVars, streamVars,
                 relatedInFlight, pageVars, mounted, activeTab, lastRelatedKey,
                 localVars, effectDue, fetches, requested>>

\* handleEditSubmit from its await on: the updaters run on the collection of
\* the moment, with the selectedComboIndex of the render the click belongs to
EditAnswer(resp) ==
  /\ ~crashed
  /\ lines = <<>>
  /\ pendingEdit # NoEdit
  /\ pendingEdit' = NoEdit
  /\ IF resp = "edited"
     THEN /\ imageSets' = EditApplied(imageSets, pendingEdit.index)
          /\ activeVariant' = ActiveVariantEdited(activeVariant, pendingEdit.index)
     ELSE UNCHANGED <<imageSets, activeVariant>>
  /\ effectDue' = IF resp = "edited" THEN DueAfter(TRUE) ELSE effectDue
  /\ nav' = [op |-> "edit", resp |-> resp]
  /\ UNCHANGED <<selectedComboIndex, relatedImages, relatedTotal, recentImages,
                 recentTotal, loading, crashed, foldVars, streamVars,
                 relatedInFlight, pageVars, mounted, activeTab, lastRelatedKey,
                 localVars, fetches, requested>>

\* The studio's Previous Images button, navigate("/gallery?previous-images"):
\* a new instance of Gallery mounts, the sidebar's effect sets the tab from
\* the address
GalleryMount(tab) ==
  /\ UNCHANGED pendingEdit
  /\ ~crashed
  /\ lines = <<>>
  /\ ~mounted
  /\ mounted' = TRUE
  /\ activeTab' = tab
  /\ effectDue' = (tab = "previous-images")
  /\ nav' = NoNav
  /\ UNCHANGED <<appVars, loading, crashed, foldVars, streamVars,
                 relatedInFlight, pageVars, lastRelatedKey, localVars, fetches,
                 requested>>

-----------------------------------------------------------------------------
(* Whole lines handed to parseLine, for folds of events in any order *)

\* parseLine on a line that decodes to an image_variant event with data e
DeliverVariant(e) ==
  /\ ~crashed
  /\ phase = "reading"
  /\ lines = <<>>
  /\ ~RequestAborted
  /\ delivered < MaxEvents
  /\ delivered' = delivered + 1
  /\ OnVariantEffect(e)
  /\ appendHeld' = TRUE
  /\ UNCHANGED <<selectedComboIndex, relatedImages, relatedTotal, recentImages,
                 recentTotal, loading, base, atStart, streamVars, relatedInFlight,
                 pendingDeletes>>
  /\ UNCHANGED galleryVars

\* parseLine on a line that decodes to the done event of the stream
DeliverDone ==
  /\ ~crashed
  /\ phase = "reading"
  /\ lines = <<>>
  /\ ~RequestAborted
  /\ ~doneSeen
  /\ doneSeen' = TRUE
  /\ calls' = Append(calls, Call("onDone", None))
  /\ OnDoneEffect
  /\ UNCHANGED <<appVars, loading, crashed, foldVars, phase, wire, sent, script,
                 decoderPending, buffer, lines, aborted, completion, settleCount,
                 pageVars>>
  /\ UNCHANGED galleryVars
  /\ UNCHANGED signalOpt

-----------------------------------------------------------------------------
(* Inputs *)

\* lines a server may send (without the newline)
LineTemplates ==
  { <<"v", "1", "}">>, <<"v", LeadByte, ContByte, "}">>, <<"d", "}">>,
    <<"x">>, <<SP>> }

RECURSIVE StreamsOf(_)
\* byte streams of exactly n lines, each ended by a newline
StreamsOf(n) ==
  IF n = 0 THEN {<<>>}
  ELSE {l \o <<NL>> \o s : l \in LineTemplates, s \in StreamsOf(n - 1)}

\* byte streams of up to MaxLines lines; the last line may lack its newline
Streams ==
  LET whole == UNION {StreamsOf(n) : n \in 0..MaxLines}
  IN whole \cup {SubSeq(s, 1, Len(s) - 1) : s \in whole \ {<<>>}}

\* image payloads: none, one whose only identifier is an empty saved_path,
\* one with an empty image_id and a saved_path
MergeImages ==
  { NoImage,
    [data |-> "A", id |-> None, image_id |-> None, saved_path |-> ""],
    [data |-> "A", id |-> None, image_id |-> "", saved_path |-> "p"] }

\* image_variant events for the first slot that carry, or omit, an
\* identifier, a rationale and a combo
MergeEvents ==
  [hasIndex : {TRUE}, index : {1}, id : {None, "", "x"}, variant : {"original"},
   image : MergeImages, rationale : {None, "", "r"}, combo : {None, "c"}]

\* lines of every kind of event parseLine tells apart: prompt, error, a
\* kind it does not know, image_variant and done
KindTemplates ==
  { <<"p", "}">>, <<"e", "}">>, <<"u", "}">>, <<"v", "1", "}">>, <<"d", "}">> }

RECURSIVE KindStreamsOf(_)
\* byte streams of exactly n such lines, each ended by a newline
KindStreamsOf(n) ==
  IF n = 0 THEN {<<>>}
  ELSE {l \o <<NL>> \o s : l \in KindTemplates, s \in KindStreamsOf(n - 1)}

KindStreams == UNION {KindStreamsOf(n) : n \in 0..MaxLines}

\* lines that are JSON values of several types, or no JSON at all: null, a
\* number, an image_variant event without data, a done event, a line
\* JSON.parse rejects
ValueTemplates ==
  { <<"n">>, <<"7">>, <<"v", "}">>, <<"d", "}">>, <<"x">> }

RECURSIVE ValueStreamsOf(_)
\* byte streams of exactly n such lines, each ended by a newline
ValueStreamsOf(n) ==
  IF n = 0 THEN {<<>>}
  ELSE {l \o <<NL>> \o s : l \in ValueTemplates, s \in ValueStreamsOf(n - 1)}

ValueStreams == UNION {ValueStreamsOf(n) : n \in 0..MaxLines}

\* image_variant events handed to the reconciler directly
\* (an event without a position hint is written with index 0)
Events ==
  {e \in [hasIndex : BOOLEAN, index : 0..MaxIndex, id : {None},
          variant : {None, "original", "medium"},
          image : {NoImage, Image("A"), Image("B")},
          rationale : {None}, combo : {None}] :
     /\ e.hasIndex \/ e.index = 0
     /\ e.variant # "original" => e.image = Image("A")
     /\ e.image = NoImage => e.variant = "original"}

ItemSet ==
  { [id |-> "a", body |-> "a1"], [id |-> "a", body |-> "a2"],
    [id |-> "b", body |-> "b1"] }
Ids == {"a", "b"}

\* pages: a page lists a record once; two of its records may share an id
Pages ==
  {p \in UNION {[1..k -> ItemSet] : k \in 0..MaxPageItems} :
     \A i, j \in 1..Len(p) : i # j => p[i] # p[j]}

\* server answers to a page request: a page, the status:false sentinel, a failure
Responses ==
  {[kind |-> "page", items |-> p, total |-> t] : p \in Pages, t \in {0, MaxTotal}}
  \cup {[kind |-> k, items |-> <<>>, total |-> 0] : k \in {"statusFalse", "error"}}

Offsets == {0, PAGE_SIZE}

\* What the server holds for the Gallery page: the previous listing and one
\* related listing per query key, each item tagged with the query it answers
RunKey == PayloadTheme \o "|" \o Selections
OtherTheme == "theme2"
OtherCombo == "combo2"
OtherKey == OtherTheme \o "|" \o OtherCombo

ServerItems(prefix, query, n) ==
  [k \in 1..n |-> [id |-> prefix \o ToString(k), theme |-> OtherTheme,
                   combo |-> OtherCombo, query |-> query]]

ServerList(query) ==
  IF query = "recent" THEN ServerItems("p", query, PAGE_SIZE + MaxExtra)
  ELSE IF query = RunKey THEN ServerItems("r", query, PAGE_SIZE + MaxExtra)
  ELSE ServerItems("s", query, PAGE_SIZE + MaxExtra)

\* the cards Use is clicked on: the first of either listing
UseItems == {ServerList("recent")[1], ServerList(RunKey)[1]}

\* the items of a listing from offset on, limit at most
Slice(list, offset, limit) == SubSeq(list, offset + 1, Min(Len(list), offset + limit))

\* The server's answers to a request for (query, offset, limit): the page of
\* its listing, either with the listing's length as total and no has_more
\* field, or with a has_more field and no total
Answers(query, offset, limit) ==
  LET list == ServerList(query)
      page == Slice(list, offset, limit)
      more == IF offset + limit < Len(list) THEN "true" ELSE "false"
  IN {[kind |-> "page", items |-> page, total |-> Len(list), has_more |-> "absent"],
      [kind |-> "page", items |-> page, total |-> 0, has_more |-> more]}

\* a request that fails
Failure == [kind |-> "error", items |-> <<>>, total |-> 0, has_more |-> "absent"]

-----------------------------------------------------------------------------
(* Specifications *)

\* useState initial values of Gallery
InitLocal ==
  /\ activeTab = "generated-images"
  /\ lastRelatedKey = None
  /\ relatedPage = 0
  /\ hasMoreRelated = TRUE
  /\ loadingRelated = FALSE
  /\ recentPage = 0
  /\ hasMoreRecent = TRUE
  /\ loadingRecent = FALSE
  /\ recentFetched = FALSE
  /\ hasRecent = FALSE
  /\ effectDue = FALSE

InitApp ==
  /\ imageSets = <<>>
  /\ activeVariant = <<>>
  /\ selectedComboIndex = 0
  /\ relatedImages = <<>>
  /\ relatedTotal = 0
  /\ recentImages = <<>>
  /\ recentTotal = 0
  /\ loading = FALSE
  /\ crashed = FALSE
  /\ base = <<>>
  /\ atStart = [activeVariant |-> <<>>, selectedComboIndex |-> 0,
                relatedImages |-> <<>>, relatedTotal |-> 0]
  /\ expect = <<>>
  /\ delivered = 0
  /\ pendingDeletes = {}
  /\ appendHeld = TRUE
  /\ InitLocal
  /\ mounted = FALSE
  /\ fetches = <<>>
  /\ requested = {}
  /\ nav = NoNav
  /\ pendingEdit = NoEdit

InitStream ==
  /\ phase = "idle"
  /\ wire = <<>>
  /\ sent = <<>>
  /\ decoderPending = <<>>
  /\ buffer = <<>>
  /\ lines = <<>>
  /\ doneSeen = FALSE
  /\ aborted = FALSE
  /\ signalOpt = "none"
  /\ completion = "none"
  /\ settleCount = 0
  /\ calls = <<>>
  /\ relatedInFlight = 0

\* The application as constructed; the server's answer is any bounded stream
Init == InitApp /\ InitStream /\ script \in Streams

\* A generation run fed by a byte stream read in chunks of any size. The
\* answers to the page requests of onDone touch the related collection only;
\* they are taken up in SpecPaged.
Next ==
  \/ HandleGenerate
  \/ OpenFail
  \/ OpenOk
  \/ \E n \in 1..Len(wire) : Read(n)
  \/ ParseLine
  \/ AtEnd
  \/ Finish
  \/ Cancel
  \/ ReadAbort
  \/ ReadFail

Spec == Init /\ [][Next]_vars

\* Runs over streams that mix events of every kind, read in chunks of any size
InitKinds == InitApp /\ InitStream /\ script \in KindStreams

NextKinds ==
  \/ HandleGenerate
  \/ OpenOk
  \/ \E n \in 1..Len(wire) : Read(n)
  \/ ParseLine
  \/ AtEnd
  \/ Finish

SpecKinds == InitKinds /\ [][NextKinds]_vars

\* Runs over streams whose lines are JSON values of several types
InitValues == InitApp /\ InitStream /\ script \in ValueStreams

NextValues ==
  \/ HandleGenerate
  \/ OpenOk
  \/ \E n \in 1..Len(wire) : Read(n)
  \/ ParseLine
  \/ AtEnd
  \/ Finish

SpecValues == InitValues /\ [][NextValues]_vars

\* Runs started with and without a signal of the caller's own, over one
\* stream of two lines, with cancel() and the caller's abort at any point
\* between reads. The server sends, or ends the stream, when it chooses to:
\* Read and AtEnd carry no fairness. The code of the page runs to completion
\* (ParseLine, Finish), and a read pending on an aborted request is rejected
\* (ReadAbort).
InitSignal == InitApp /\ InitStream /\ script = <<"v", "1", "}", NL, "d", "}", NL>>

NextSignal ==
  \/ HandleGenerate
  \/ GenerateWithSignal
  \/ OpenOk
  \/ \E n \in 1..Len(wire) : Read(n)
  \/ ParseLine
  \/ AtEnd
  \/ Finish
  \/ Cancel
  \/ SignalAbort
  \/ ReadAbort

SpecSignal ==
  /\ InitSignal
  /\ [][NextSignal]_vars
  /\ WF_vars(ParseLine)
  /\ WF_vars(Finish)
  /\ WF_vars(ReadAbort)

\* Generation runs whose image_variant events reach the reconciler in any order
InitReconcile == InitApp /\ InitStream /\ script = <<>>

NextReconcile ==
  \/ HandleGenerate
  \/ OpenOk
  \/ \E e \in Events : DeliverVariant(e)
  \/ DeliverDone
  \/ AtEnd
  \/ Finish
  \/ HandleNewGen

SpecReconcile == InitReconcile /\ [][NextReconcile]_vars

\* Runs whose image_variant events carry the hint 0 or 1, or none, with and
\* without variant tag and image payload
VariantEvents == {e \in Events : e.index <= 1}

NextVariants ==
  \/ HandleGenerate
  \/ OpenOk
  \/ \E e \in VariantEvents : DeliverVariant(e)
  \/ DeliverDone
  \/ AtEnd
  \/ Finish

SpecVariants == InitReconcile /\ [][NextVariants]_vars

\* Runs whose image_variant events all address the first slot and differ in
\* the identifier, rationale and combo they carry
NextMerge ==
  \/ HandleGenerate
  \/ OpenOk
  \/ \E e \in MergeEvents : DeliverVariant(e)
  \/ DeliverDone
  \/ AtEnd
  \/ Finish

SpecMerge == InitReconcile /\ [][NextMerge]_vars

\* The paged collections under page loads, deletes and resets. The start is
\* the state after a first run whose stream was the single line "d}": the
\* page request of its onDone is still unanswered.
InitPaged ==
  /\ InitApp
  /\ script = <<"d", "}", NL>>
  /\ phase = "settled"
  /\ wire = <<>>
  /\ sent = script
  /\ decoderPending = <<>>
  /\ buffer = <<>>
  /\ lines = <<>>
  /\ doneSeen = TRUE
  /\ aborted = FALSE
  /\ signalOpt = "none"
  /\ completion = "resolved"
  /\ settleCount = 1
  /\ calls = <<Call("onDone", None)>>
  /\ relatedInFlight = 1

NextPaged ==
  \/ \E resp \in Responses : RecentMountResponse(resp)
  \/ \E o \in Offsets, resp \in Responses : RecentPageResponse(o, resp)
  \/ \E resp \in Responses : PrefetchResponse(resp)
  \/ \E resp \in Responses : RelatedPageResponse(resp)
  \/ \E i \in Ids : DeleteClick(i)
  \/ \E d \in pendingDeletes : DeleteSucceeds(d)
  \/ \E d \in pendingDeletes : DeleteFails(d)
  \/ DeleteAll
  \/ HandleNewGen

SpecPaged == InitPaged /\ [][NextPaged]_vars

\* The paged collections under page loads alone, every answer in any order
NextLoads ==
  \/ \E resp \in Responses : RecentMountResponse(resp)
  \/ \E o \in Offsets, resp \in Responses : RecentPageResponse(o, resp)
  \/ \E resp \in Responses : PrefetchResponse(resp)
  \/ \E resp \in Responses : RelatedPageResponse(resp)

SpecLoads == InitPaged /\ [][NextLoads]_vars

\* no state is the start of SpecPaged: violated under Spec, whose runs reach it
InitPagedReached == ~InitPaged

\* The state of the application after a run whose stream was the two lines
\* "v1}" and "d}": one image set, the page request of onDone unanswered
GalleryStream == <<"v", "1", "}", NL, "d", "}", NL>>

RunDone ==
  LET e == PayloadData("1") IN
  /\ imageSets = Reconcile(<<>>, e)
  /\ activeVariant = ActiveVariantAfter(<<>>, ResolvedIndex(<<>>, e))
  /\ selectedComboIndex = 0
  /\ relatedImages = <<>>
  /\ relatedTotal = 0
  /\ recentImages = <<>>
  /\ recentTotal = 0
  /\ loading = FALSE
  /\ crashed = FALSE
  /\ base = <<>>
  /\ atStart = [activeVariant |-> <<>>, selectedComboIndex |-> 0,
                relatedImages |-> <<>>, relatedTotal |-> 0]
  /\ expect = (0 :> [tags |-> (e.variant :> e.image), merged |-> FALSE])
  /\ delivered = 0
  /\ pendingDeletes = {}
  /\ appendHeld = TRUE
  /\ script = GalleryStream
  /\ phase = "settled"
  /\ wire = <<>>
  /\ sent = script
  /\ decoderPending = <<>>
  /\ buffer = <<>>
  /\ lines = <<>>
  /\ doneSeen = TRUE
  /\ aborted = FALSE
  /\ signalOpt = "none"
  /\ completion = "resolved"
  /\ settleCount = 1
  /\ calls = <<Call("onVariant", "1"), Call("onDone", None)>>
  /\ relatedInFlight = 1

\* no state is the end of that run: violated under Spec, whose runs reach it
RunDoneReached == ~RunDone

\* The Gallery page after that run: onDone has navigated to
\* /gallery?generated-images, the page has mounted. The server answers the
\* page requests of the page from its listings; the prefetch may also fail.
InitGallery ==
  /\ RunDone
  /\ InitLocal
  /\ mounted = TRUE
  /\ fetches = <<>>
  /\ requested = {}
  /\ nav = NoNav
  /\ pendingEdit = NoEdit

Tabs == {"generated-images", "previous-images", "related-images"}

NextGallery ==
  \/ GalleryMount("previous-images")
  \/ \E tab \in Tabs : SetActiveTab(tab)
  \/ RelatedKeyEffect
  \/ PreviousTabEffect
  \/ \E page \in 0..MaxPage : RelatedNav(page)
  \/ \E page \in 0..MaxPage : RecentNav(page)
  \/ \E i \in 1..Len(fetches) :
       \E resp \in Answers(fetches[i].key, fetches[i].offset, PAGE_SIZE) :
         RecentMountAnswer(i, resp)
  \/ \E i \in 1..Len(fetches) :
       \E resp \in Answers(fetches[i].key, fetches[i].offset, PAGE_SIZE) :
         RecentPageAnswer(i, resp)
  \/ \E i \in 1..Len(fetches) :
       \E resp \in Answers(fetches[i].key, fetches[i].offset, PAGE_SIZE) :
         RelatedPageAnswer(i, resp)
  \/ \E resp \in Answers(RunKey, 0, PAGE_SIZE) \cup {Failure} :
       EffectsIdle /\ PrefetchResponse(resp)
  \/ \E image \in UseItems : HandleUseImage(image)
  \/ mounted /\ EffectsIdle /\ HandleNewGen

SpecGallery == InitGallery /\ [][NextGallery]_vars

\* what a request for (query, offset, limit) may come back with when the
\* backend is unreliable: the page of the listing, or a failure (the request
\* rejects, or the status is not a success and http throws)
AnswersOrFailure(query, offset, limit) ==
  {[kind |-> "page", items |-> Slice(ServerList(query), offset, limit),
    total |-> Len(ServerList(query)), has_more |-> "absent"],
   Failure}

\* The Gallery page over an unreliable backend
NextFailing ==
  \/ GalleryMount("previous-images")
  \/ \E tab \in Tabs : SetActiveTab(tab)
  \/ RelatedKeyEffect
  \/ PreviousTabEffect
  \/ \E page \in 0..MaxPage : RelatedNav(page)
  \/ \E page \in 0..MaxPage : RecentNav(page)
  \/ \E i \in 1..Len(fetches) :
       \E resp \in AnswersOrFailure(fetches[i].key, fetches[i].offset, PAGE_SIZE) :
         RecentMountAnswer(i, resp)
  \/ \E i \in 1..Len(fetches) :
       \E resp \in AnswersOrFailure(fetches[i].key, fetches[i].offset, PAGE_SIZE) :
         RecentPageAnswer(i, resp)
  \/ \E i \in 1..Len(fetches) :
       \E resp \in AnswersOrFailure(fetches[i].key, fetches[i].offset, PAGE_SIZE) :
         RelatedPageAnswer(i, resp)
  \/ \E resp \in AnswersOrFailure(RunKey, 0, PAGE_SIZE) :
       EffectsIdle /\ PrefetchResponse(resp)
  \/ mounted /\ EffectsIdle /\ HandleNewGen

SpecFailing == InitGallery /\ [][NextFailing]_vars

\* The Gallery page with its edit panel: edits, and what replaces the
\* collection while an edit request waits
NextEdit ==
  \/ \E tab \in Tabs : SetActiveTab(tab)
  \/ RelatedKeyEffect
  \/ PreviousTabEffect
  \/ \E i \in 1..Len(fetches) :
       \E resp \in Answers(fetches[i].key, fetches[i].offset, PAGE_SIZE) :
         RecentMountAnswer(i, resp)
  \/ \E resp \in Answers(RunKey, 0, PAGE_SIZE) \cup {Failure} :
       EffectsIdle /\ PrefetchResponse(resp)
  \/ \E image \in UseItems : HandleUseImage(image)
  \/ mounted /\ EffectsIdle /\ HandleNewGen
  \/ HandleEditSubmit
  \/ \E resp \in EditResponses : EditAnswer(resp)

SpecEdit == InitGallery /\ [][NextEdit]_vars

-----------------------------------------------------------------------------
(* The reconciler's fold *)

\* positions of imageSets that hold an entry
DefinedSlots(arr) == {k \in 1..Len(arr) : arr[k] # Undefined}

\* tags the entry at slot s held when the fold started
BaseTags(s) ==
  IF s < Len(base) /\ base[s + 1] # Undefined THEN DOMAIN base[s + 1].variants ELSE {}

\* C1: the image_variant events of a run that resolved to one slot, in whatever
\* order they were delivered, leave one entry at that slot, whose variants map
\* holds for every tag they carried with an image the image of the last of
\* them (and no tag besides those and the ones the slot held before the run);
\* the collection holds one entry per slot, none twice.
C1_SameSlotMerged ==
  /\ \A s \in DOMAIN expect :
        /\ s < Len(imageSets)
        /\ imageSets[s + 1] # Undefined
        /\ DOMAIN imageSets[s + 1].variants = (DOMAIN expect[s].tags) \cup BaseTags(s)
        /\ \A t \in DOMAIN expect[s].tags :
              imageSets[s + 1].variants[t] = expect[s].tags[t]
  /\ Cardinality(DefinedSlots(imageSets))
       = Cardinality({s + 1 : s \in DOMAIN expect} \cup DefinedSlots(base))

\* a slot that received a second event and holds two tags
C1_Witness ==
  /\ ~crashed
  /\ \E s \in DOMAIN expect :
        /\ expect[s].merged
        /\ Cardinality(DOMAIN expect[s].tags) = 2
        /\ DOMAIN imageSets[s + 1].variants = DOMAIN expect[s].tags

\* an image_variant event that carries the position hint h
HintEvent(h) ==
  [hasIndex |-> TRUE, index |-> h, id |-> None, variant |-> "original",
   image |-> Image("A"), rationale |-> None, combo |-> None]

\* C28: image_variant events with different non-negative integer position
\* hints resolve to different slots, and events with the same hint to the
\* same slot, whatever the collection holds.
C28_HintsInjective ==
  \A h1, h2 \in 0..MaxIndex :
    (ResolvedIndex(imageSets, HintEvent(h1)) = ResolvedIndex(imageSets, HintEvent(h2)))
      <=> (h1 = h2)

\* the slot the claim gives an event without a position hint: that of the
\* first entry whose key is the event's variant label, else the length
LabelSlot(prev, e) ==
  LET matches == {k \in 1..Len(prev) :
                    IF prev[k] = Undefined THEN FALSE ELSE prev[k].key = e.variant}
  IN IF matches # {} THEN SetMin(matches) - 1 ELSE Len(prev)

\* C29: an image_variant event without an integer position hint is resolved,
\* in every state a run reaches, to the slot of the first existing entry
\* whose key equals its variant label, else to a new slot at the end; the
\* entries at the other slots stay as they are.
C29_NoHintByLabel ==
  /\ ~crashed
  /\ \A e \in Events :
       ~e.hasIndex =>
         /\ ~ResolveThrows(imageSets, e)
         /\ ResolvedIndex(imageSets, e) = LabelSlot(imageSets, e)
         /\ \A k \in 1..Len(imageSets) :
              k # LabelSlot(imageSets, e) + 1 => Reconcile(imageSets, e)[k] = imageSets[k]

\* the first event of candidate "x": it carries the position hint h; and a
\* later event of the same candidate with another variant tag and no hint
FirstOfCandidate(h) ==
  [hasIndex |-> TRUE, index |-> h, id |-> "x", variant |-> "original",
   image |-> Image("A"), rationale |-> None, combo |-> None]
LaterOfCandidate ==
  [hasIndex |-> FALSE, index |-> 0, id |-> "x", variant |-> "medium",
   image |-> Image("B"), rationale |-> None, combo |-> None]

\* C30: when a candidate's first image_variant event carried a position hint
\* and a later event of the same candidate (same identifier, another variant
\* tag) carries none, the later event is merged into the candidate's entry:
\* the collection gains no entry and no other entry changes.
C30_LaterEventMerged ==
  \A h \in 1..MaxIndex :
    LET first == Reconcile(imageSets, FirstOfCandidate(h))
        slot == ResolvedIndex(imageSets, FirstOfCandidate(h))
        after == Reconcile(first, LaterOfCandidate)
    IN /\ ~ResolveThrows(first, LaterOfCandidate)
       /\ ResolvedIndex(first, LaterOfCandidate) = slot
       /\ Len(after) = Len(first)
       /\ \A k \in 1..Len(first) : k # slot + 1 => after[k] = first[k]
       /\ DOMAIN after[slot + 1].variants = DOMAIN first[slot + 1].variants \cup {"medium"}

\* the variants map the slot an event resolves to holds before the event
VariantsAt(prev, e) ==
  LET r == ResolvedIndex(prev, e) IN
  IF r < Len(prev) /\ prev[r + 1] # Undefined THEN prev[r + 1].variants ELSE <<>>

\* C32: an image_variant event that lacks the variant tag or the image
\* payload leaves the variants map of the entry it resolves to as it was (an
\* empty map when the slot held no entry); and no event removes or replaces
\* a variant stored under a tag other than its own.
C32_PartialEventKeepsVariants ==
  \A e \in VariantEvents :
    ~ResolveThrows(imageSets, e) =>
      LET before == VariantsAt(imageSets, e)
          after == Reconcile(imageSets, e)[ResolvedIndex(imageSets, e) + 1].variants
      IN /\ (e.variant = None \/ e.image = NoImage) => after = before
         /\ \A t \in DOMAIN before :
              t # e.variant => (t \in DOMAIN after /\ after[t] = before[t])

\* an entry holds images under two tags, so that an event without image
\* for one of them has something to keep
C32_Witness ==
  /\ ~crashed
  /\ Len(imageSets) >= 1
  /\ imageSets[1] # Undefined
  /\ DOMAIN imageSets[1].variants = {"original", "medium"}
  /\ delivered = MaxEvents

\* C2: a run that starts from an empty collection and whose image_variant
\* events resolve to N distinct slots leaves a collection of exactly N
\* entries, with zero or one done event, whatever the order of delivery.
C2_EntriesEqualSlots ==
  (base = <<>> /\ ~crashed) => Len(imageSets) = Cardinality(DOMAIN expect)

\* C35: in every state during and after a run imageSets is dense: every
\* index below its length holds an entry, whatever position hints the events
\* carried and in whatever order they came.
C35_Dense ==
  ~crashed => \A k \in 1..Len(imageSets) : imageSets[k] # Undefined

-----------------------------------------------------------------------------
(* The paged collections *)

NoDuplicateIds(list) ==
  \A i, j \in 1..Len(list) : i # j => list[i].id # list[j].id

\* C3: in every reachable state neither recentImages nor relatedImages holds
\* two entries with the same identifier, whatever page loads (append or
\* replace), single deletions, delete-all and resets came before.
C3_NoDuplicateIds == NoDuplicateIds(recentImages) /\ NoDuplicateIds(relatedImages)

\* both sequences hold two entries while a delete request is outstanding
C3_Witness ==
  /\ Len(recentImages) = 2
  /\ Len(relatedImages) = 2
  /\ pendingDeletes # {}

\* C21: applying the same page load twice (same offset, same append flag,
\* same server answer) leaves recentImages and relatedImages as applying it
\* once does, and the result holds no identifier twice.
C21_LoadIdempotent ==
  \A resp \in Responses, append \in BOOLEAN :
    /\ LET once == RelatedImagesAfter(relatedImages, append, resp)
       IN /\ RelatedImagesAfter(once, append, resp) = once
          /\ NoDuplicateIds(once)
    /\ \A o \in Offsets :
         LET once == RecentImagesAfter(recentImages, o, append, resp)
         IN /\ RecentImagesAfter(once, o, append, resp) = once
            /\ NoDuplicateIds(once)

\* both sequences are as an appended page left them: some answer with items
\* would leave them unchanged when appended again, and each holds two entries
C21_Witness ==
  /\ Len(recentImages) = 2
  /\ Len(relatedImages) = 2
  /\ pendingDeletes = {}
  /\ \E resp \in Responses :
       /\ resp.kind = "page" /\ resp.items # <<>>
       /\ RelatedImagesAfter(relatedImages, TRUE, resp) = relatedImages
       /\ RecentImagesAfter(recentImages, PAGE_SIZE, TRUE, resp) = recentImages

\* the status:false answer, and the answer {items: [], total: 0}
StatusFalse == [kind |-> "statusFalse", items |-> <<>>, total |-> 0]
EmptyPage == [kind |-> "page", items |-> <<>>, total |-> 0]

\* C27: a recent-images answer carrying status:false is handled exactly like
\* the answer {items: [], total: 0}: the load returns the same empty page with
\* has_more false, and recentImages afterwards is what merging an empty page
\* under the same offset and append flag leaves.
C27_StatusFalseAsEmptyPage ==
  \A o \in Offsets, append \in BOOLEAN :
    /\ FetchRecentResult(StatusFalse) = FetchRecentResult(EmptyPage)
    /\ RecentHasMore(StatusFalse, o, PAGE_SIZE) = RecentHasMore(EmptyPage, o, PAGE_SIZE)
    /\ RecentImagesAfter(recentImages, o, append, StatusFalse)
         = RecentImagesAfter(recentImages, o, append, EmptyPage)

\* a stored total as a number: the comparison operators convert [] to 0
TotalNumber(total) == IF total = EmptyArray THEN 0 ELSE total

\* C36: for the previous and the related collection the number of entries
\* held never exceeds the stored total, after any sequence of successful and
\* failed page loads, deletions, delete-all and resets.
C36_HeldWithinTotal ==
  /\ Len(recentImages) <= TotalNumber(recentTotal)
  /\ Len(relatedImages) <= TotalNumber(relatedTotal)

\* C37: relatedTotal and recentTotal are non-negative integers in every
\* state, after any sequence of page loads, deletions, delete-all, starts of
\* a run and New Generation resets.
C37_TotalsAreNaturals == recentTotal \in Nat /\ relatedTotal \in Nat

\* C4: a page load with append leaves the sequence equal to the sequence
\* before it followed by the page's items whose identifier it did not hold,
\* in page order; nothing held before is removed or reordered.
C4_AppendKeepsPrefix == appendHeld

-----------------------------------------------------------------------------
(* The streaming run *)

StreamingFailed == Call("onError", "Streaming failed")

LastCall == IF calls = <<>> THEN Call("none", None) ELSE calls[Len(calls)]

OnDoneCount == Cardinality({k \in 1..Len(calls) : calls[k].cb = "onDone"})

\* C6: in one run onDone is invoked at most once, explicit done events and
\* the synthesized completion counted together, whatever the stream holds.
C6_OnDoneAtMostOnce == OnDoneCount <= 1

\* C7: when a run is cancelled before any done event was dispatched, cancel()
\* itself invokes no callback, and the read loop then ends by resolving the
\* completion signal, exactly once, invoking the synthesized onDone and no
\* onError.
C7_CancelSilent ==
  [][ /\ (~aborted /\ aborted') => (calls' = calls /\ completion' = completion)
      /\ (aborted /\ ~doneSeen /\ phase = "reading" /\ phase' # "reading") =>
            /\ phase' = "settled"
            /\ completion' = "resolved"
            /\ settleCount' = 1
            /\ calls' = Append(calls, Call("onDone", None)) ]_vars

\* a run cancelled after it dispatched an event and before any done event
C7_Witness ==
  /\ phase = "settled"
  /\ aborted
  /\ ~doneSeen
  /\ Len(calls) >= 2
  /\ calls[1].cb = "onVariant"

\* C23: after cancel() on the handle of a run whose read loop is running, the
\* request is aborted, so the read loop ends and completion settles without
\* the server ending the stream, whether or not the caller passed a signal of
\* its own.
C23_CancelSettles == (aborted /\ phase = "reading") ~> (phase = "settled")

\* C22: once the read loop has observed the cancellation (the pending read
\* rejected with an AbortError) no observer callback of the run is invoked any
\* more: the list of callback invocations does not grow.
C22_NoCallbackAfterCancel ==
  [][(aborted /\ phase = "reading") => calls' = calls]_vars

RECURSIVE CallsOfLines(_)
\* the callbacks of a list of lines handed to parseLine one after the other
CallsOfLines(ls) ==
  IF ls = <<>> THEN <<>> ELSE LineCalls(Head(ls)) \o CallsOfLines(Tail(ls))

\* the text of the first n bytes of the stream, decoded in one piece
TextOf(n) == Decode(<<>>, SubSeq(sent, 1, n)).out

\* the callbacks of the whole stream delivered by a single read
OneShotCalls ==
  LET text == TextOf(Len(sent))
      ls == LinesOf(text) \o (IF Trim(RestOf(text)) # <<>> THEN <<RestOf(text)>> ELSE <<>>)
      cs == CallsOfLines(ls)
  IN IF \E k \in 1..Len(ls) : LineAction(ls[k]) = "done"
     THEN cs
     ELSE Append(cs, Call("onDone", None))

\* C8: the callbacks dispatched, and their payloads, do not depend on how the
\* byte stream is cut into reads: between reads they are those of the whole
\* lines received so far, and when the stream has ended they are those of the
\* stream delivered by one read, a last line without newline included.
C8_ChunkingIndependent ==
  /\ (phase = "reading" /\ lines = <<>>) =>
        /\ calls = CallsOfLines(LinesOf(TextOf(Len(sent) - Len(wire))))
        /\ buffer = RestOf(TextOf(Len(sent) - Len(wire)))
  /\ (phase = "settled" /\ ~aborted /\ completion = "resolved") =>
        calls = OneShotCalls

\* a read ended inside a line and inside a character, after an earlier dispatch
C8_Witness ==
  /\ phase = "reading"
  /\ lines = <<>>
  /\ calls # <<>>
  /\ buffer # <<>>
  /\ decoderPending # <<>>

\* C9: a non-blank line that JSON.parse rejects makes parseLine invoke onError
\* once, with the message "Malformed stream data", and nothing else: the
\* collection is unchanged, the run goes on with the next line, the completion
\* signal stays pending; a run that then reaches the end of its stream
\* resolves it once.
C9_MalformedLineReported ==
  /\ [][ (lines # <<>> /\ Trim(Head(lines)) # <<>>
          /\ JsonParse(Head(lines)).json = "SyntaxError") =>
            /\ calls' = Append(calls, Call("onError", "Malformed stream data"))
            /\ lines' = Tail(lines)
            /\ UNCHANGED <<imageSets, phase, completion, settleCount, doneSeen,
                           wire, buffer>> ]_vars
  /\ [](( /\ phase = "settled"
          /\ ~aborted
          /\ LastCall # StreamingFailed
          /\ \E k \in 1..Len(calls) : calls[k] = Malformed ) =>
            (completion = "resolved" /\ settleCount = 1))

\* a malformed line between two image_variant lines, all dispatched, both
\* entries in the collection, the completion signal resolved
C9_Witness ==
  /\ phase = "settled"
  /\ completion = "resolved"
  /\ Len(calls) >= 3
  /\ calls[1] = Call("onVariant", "1")
  /\ calls[2] = Malformed
  /\ calls[3] = Call("onVariant", TwoByteChar)
  /\ DefinedSlots(imageSets) = {1, 2}

\* the line parseLine is about to take is an event of the kind written c
NextLineIs(c) == lines # <<>> /\ Trim(Head(lines)) = <<c, "}">>

\* C25: a prompt event, an error event and an event of a kind parseLine does
\* not know leave imageSets as it was; the error event does not end the run
\* (the read loop goes on, nothing settles); the unknown kind invokes no
\* callback, the prompt event onPrompt only, the error event onError only.
C25_OtherKindsKeepSets ==
  [][ (\E c \in {"p", "e", "u"} : NextLineIs(c)) /\ lines' = Tail(lines) =>
        /\ imageSets' = imageSets
        /\ activeVariant' = activeVariant
        /\ phase' = phase
        /\ completion' = completion
        /\ doneSeen' = doneSeen
        /\ loading' = loading
        /\ calls' = calls \o (CASE NextLineIs("p") -> <<Call("onPrompt", None)>>
                                [] NextLineIs("e") -> <<Call("onError", None)>>
                                [] OTHER -> <<>>) ]_vars

\* a run of three lines has settled: an image_variant event, then an error
\* event, then an event of an unknown kind; the entry is there, and the run
\* went on to its end, where onDone was supplied
C25_Witness ==
  /\ script = <<"v", "1", "}", NL, "e", "}", NL, "u", "}", NL>>
  /\ phase = "settled"
  /\ Len(imageSets) = 1
  /\ Len(calls) = 3
  /\ calls[2] = Call("onError", None)
  /\ calls[3] = Call("onDone", None)

\* C33: once a done event has been dispatched, the lines that follow it in
\* the stream are not dispatched to the observer and do not change imageSets.
C33_DoneIsTerminal ==
  [][ (doneSeen /\ lines # <<>> /\ lines' = Tail(lines)) =>
        (calls' = calls /\ imageSets' = imageSets) ]_vars

\* C40: parseLine reports "Malformed stream data" only for a line that is
\* not valid JSON: a line that is valid JSON, of whatever type of value, never
\* has it reported.
C40_MalformedOnlyForNonJson ==
  [][ (lines # <<>> /\ lines' = Tail(lines)
       /\ JsonParse(Head(lines)).json # "SyntaxError") =>
        \A k \in (Len(calls) + 1)..Len(calls') : calls'[k] # Malformed ]_vars

\* C10: when the stream cannot be opened, streamGenerateDesigns throws to its
\* caller: no handle exists, no completion signal, and no observer callback
\* is invoked for the run.
C10_OpenFailureSilent ==
  phase = "openFailed" =>
    /\ calls = <<>>
    /\ completion = "none"
    /\ settleCount = 0
    /\ imageSets = base

\* an open failure of a run that follows a run that left entries
C10_Witness ==
  /\ phase = "openFailed"
  /\ ~loading
  /\ imageSets # <<>>

\* C39: once the stream attempt of handleGenerate has ended, in whatever way
\* (the stream could not be opened, it ended after a done event or without
\* one, a read failed in mid-stream), the loading flag is false again.
C39_LoadingCleared ==
  phase \in {"openFailed", "settled"} => ~loading

\* a run that merged an entry and then ended on a read failure
C39_Witness ==
  /\ phase = "settled"
  /\ completion = "rejected"
  /\ LastCall = StreamingFailed
  /\ base = <<>>
  /\ imageSets # <<>>
  /\ ~loading

\* C24: when the stream of a generation attempt cannot be opened, imageSets,
\* relatedImages, relatedTotal, activeVariant and selectedComboIndex are as
\* they were before the attempt.
C24_OpenFailureKeepsState ==
  phase = "openFailed" =>
    /\ imageSets = base
    /\ Snapshot = atStart

-----------------------------------------------------------------------------
(* Runs and resets *)

\* C11: starting a run clears imageSets: the collection a run's events are
\* merged into is empty when the run starts, so that nothing of an earlier run
\* is left in it.
C11_RunStartsEmpty ==
  phase \in {"opening", "reading", "flushing", "settled", "openFailed"} => base = <<>>

\* a stream is in flight whose page instance is gone: the collection was reset
\* (handleNewGen) after the run started
Superseded == ~loading /\ phase \in {"reading", "flushing"}

\* C12: once the collection was reset while a run's stream was in flight, the
\* events still arriving from that stream change neither imageSets nor
\* activeVariant, and issue no request for the related collection.
C12_PriorRunIgnored ==
  [][ (Superseded /\ (delivered' # delivered \/ calls' # calls)) =>
        /\ imageSets' = imageSets
        /\ activeVariant' = activeVariant
        /\ relatedInFlight' = relatedInFlight ]_vars

-----------------------------------------------------------------------------
(* Deletes *)

\* C13: a delete that succeeds removes the entry with the identifier from
\* each sequence and lowers by one, not below zero, the total of each sequence
\* that held it when the delete took effect; the total of a sequence that did
\* not hold it is unchanged. Overlapping delete requests included.
C13_DeleteAdjustsTotals ==
  [][ \A d \in pendingDeletes :
        (pendingDeletes' = pendingDeletes \ {d} /\ appVars' # appVars) =>
          /\ recentImages' = WithoutId(recentImages, d.id)
          /\ relatedImages' = WithoutId(relatedImages, d.id)
          /\ recentTotal' = IF HasId(recentImages, d.id)
                            THEN Max(0, recentTotal - 1) ELSE recentTotal
          /\ relatedTotal' = IF HasId(relatedImages, d.id)
                             THEN Max(0, relatedTotal - 1) ELSE relatedTotal ]_vars

-----------------------------------------------------------------------------
(* The related query key *)

\* the step is a run of the related key effect
KeyEffectRuns == KeyChanged /\ lastRelatedKey' = CurrentKey

\* every entry of the related sequence answers the query key
FetchedUnder(items, key) == \A k \in 1..Len(items) : items[k].query = key

\* C14: once the related query key has changed and the key-change effect has
\* run, every entry of the related sequence was fetched under the new key.
C14_NoStaleRelated ==
  [][ KeyEffectRuns => FetchedUnder(relatedImages', lastRelatedKey') ]_vars

\* the related collection was reset or loaded for a key other than key: the
\* key effect has run for that other key and the sequence holds nothing that
\* was fetched under another one
Superseding(key) ==
  /\ lastRelatedKey \notin {None, key}
  /\ FetchedUnder(relatedImages, lastRelatedKey)

\* the step answers a related page request that was issued for key: the
\* prefetch of the run's onDone, or a request of goToPage
AnswersRelated(key) ==
  \/ /\ key = RunKey
     /\ relatedInFlight' = relatedInFlight - 1
  \/ \E i \in 1..Len(fetches) :
       /\ fetches[i].coll = "related"
       /\ fetches[i].key = key
       /\ fetches' = RemoveAt(fetches, i)

\* C38: the answer to a related page request issued for an earlier key or
\* run, arriving after the related collection was reset or loaded for a newer
\* one, neither replaces nor extends the related sequence or its total.
C38_SupersededAnswerDropped ==
  [][ \A key \in {RunKey, OtherKey} :
        (Superseding(key) /\ AnswersRelated(key)) =>
          /\ relatedImages' = relatedImages
          /\ relatedTotal' = relatedTotal ]_vars

\* C15: when the related key changes while the related sequence is empty (and
\* no prefetch is pending), the effect leaves the sequence empty, the total 0
\* and the cursor on page 0, and issues a page request for the new key at
\* offset 0.
C15_KeyChangeRestartsPaging ==
  [][ (KeyEffectRuns /\ relatedImages = <<>> /\ relatedInFlight = 0) =>
        /\ relatedImages' = <<>>
        /\ relatedTotal' = 0
        /\ relatedPage' = 0
        /\ Len(fetches') = Len(fetches) + 1
        /\ fetches'[Len(fetches')].coll = "related"
        /\ fetches'[Len(fetches')].key = CurrentKey
        /\ fetches'[Len(fetches')].offset = 0 ]_vars

\* C16: when the related key changes and the sequence holds the entries a
\* prefetch for the new key has delivered, the effect issues no request and
\* leaves the sequence and the total as they are.
C16_PrefetchKept ==
  [][ (KeyEffectRuns /\ relatedImages # <<>> /\ FetchedUnder(relatedImages, CurrentKey)) =>
        /\ fetches' = fetches
        /\ relatedInFlight' = relatedInFlight
        /\ relatedImages' = relatedImages
        /\ relatedTotal' = relatedTotal
        /\ relatedPage' = 0 ]_vars

\* the effect has just kept the prefetched first page of the run's key
C16_Witness ==
  /\ nav = [op |-> "kept", key |-> RunKey]
  /\ lastRelatedKey = RunKey
  /\ Len(relatedImages) = PAGE_SIZE
  /\ FetchedUnder(relatedImages, RunKey)
  /\ fetches = <<>>

-----------------------------------------------------------------------------
(* goToPage *)

Cursor(coll) == IF coll = "recent" THEN recentPage ELSE relatedPage
HasMore(coll) == IF coll = "recent" THEN hasMoreRecent ELSE hasMoreRelated

\* the step calls goToPage for a page the local sequence covers
CoveredCall ==
  /\ nav'.op = "call"
  /\ nav'.len >= (nav'.page + 1) * PAGE_SIZE

\* what a covered call leaves alone, and the cursor it sets
CoveredFrame ==
  /\ fetches' = fetches
  /\ relatedInFlight' = relatedInFlight
  /\ appVars' = appVars
  /\ Cursor(nav.coll)' = nav'.page

Issued == fetches'[Len(fetches')]

\* C18: while a collection is not reset, no page of it is requested by
\* goToPage a second time: a page request is for a (collection, query, offset)
\* that was not requested since the collection was last reset.
C18_PageRequestedOnce ==
  [][ (Len(fetches') = Len(fetches) + 1 /\ Issued.via = "page" /\ ~KeyEffectRuns) =>
        <<Issued.coll, Issued.key, Issued.offset>> \notin requested ]_vars

\* C19: when the server's answer to a page request of goToPage carries no
\* has_more field, the has-more flag goToPage stores is
\* (offset + limit) < total AND items.length > 0, for either collection.
C19_HasMoreDerived ==
  [][ (nav'.op = "answer" /\ nav'.live /\ nav'.field = "absent") =>
        HasMore(nav.coll)' = (nav'.offset + PAGE_SIZE < nav'.total /\ nav'.len > 0) ]_vars

\* page requests of a collection not yet answered, the prefetch of onDone included
InFlight(coll) ==
  Cardinality({k \in 1..Len(fetches) : fetches[k].coll = coll})
    + (IF coll = "related" THEN relatedInFlight ELSE 0)

\* C20: for each paged collection at most one page request is in flight.
C20_OneFetchPerCollection ==
  \A coll \in {"recent", "related"} : InFlight(coll) <= 1

\* the busy flag of a collection's page requests
Busy(coll) == IF coll = "recent" THEN loadingRecent ELSE loadingRelated

\* C26: a page request of goToPage that fails, for the previous or the related
\* listing, raises nothing in the page: the load hands back an empty page
\* whose has_more is false, and goToPage ends with the collection's has-more
\* flag false and its busy flag cleared.
C26_FailedFetchContained ==
  [][ (nav'.op = "answer" /\ nav'.failed /\ nav'.live) =>
        /\ crashed' = crashed
        /\ nav'.len = 0
        /\ nav'.total = 0
        /\ ~RecentHasMore(Failure, nav'.offset, PAGE_SIZE)
        /\ ~RelatedHasMore(Failure, nav'.offset, PAGE_SIZE)
        /\ ~HasMore(nav.coll)'
        /\ ~Busy(nav.coll)' ]_vars

\* the request for the second page of the previous listing has just failed:
\* the first page is still held
C26_Witness ==
  /\ nav.op = "answer"
  /\ nav.failed
  /\ nav.live
  /\ nav.coll = "recent"
  /\ nav.offset = PAGE_SIZE
  /\ Len(recentImages) = PAGE_SIZE
  /\ ~hasMoreRecent
  /\ ~loadingRecent

-----------------------------------------------------------------------------
(* The merge of an event into an existing entry *)

RECURSIVE FirstNonNull(_)
\* the first element of s that is not null, null when there is none
FirstNonNull(s) ==
  IF s = <<>> THEN None
  ELSE IF Head(s) # None THEN Head(s) ELSE FirstNonNull(Tail(s))

RECURSIVE FirstTruthy(_)
\* the first element of s that is neither null nor "", null when there is none
FirstTruthy(s) ==
  IF s = <<>> THEN None
  ELSE IF Head(s) \notin {None, ""} THEN Head(s) ELSE FirstTruthy(Tail(s))

\* the identifiers an event offers, in the order of the claim, then the stored one
IdCandidates(e, stored) ==
  <<e.id, e.image.id, e.image.image_id, e.image.saved_path, stored.id>>

\* C31 as stated: merging an event into the existing entry of its slot sets
\* the id to the first non-null of {event id, image.id, image.image_id,
\* image.saved_path, stored id}, replaces the rationale only when the event
\* provides one, and takes the combo from the event if present, else keeps
\* the stored combo.
C31_FirstNonNull ==
  \A e \in MergeEvents :
    Len(imageSets) >= 1 =>
      LET stored == imageSets[1]
          merged == MergedEntry(imageSets, e)
      IN /\ merged.id = FirstNonNull(IdCandidates(e, stored))
         /\ merged.rationale = (IF e.rationale # None THEN e.rationale ELSE stored.rationale)
         /\ merged.combo = (IF e.combo # None THEN e.combo ELSE stored.combo)

\* C31 as the code has it: the id is the first of the candidates that is
\* neither null nor empty; the rationale is replaced when the event's is not
\* null (an empty one replaces); the combo is the event's when that is not
\* empty, else the stored one; an event that omits all of them leaves the
\* stored id, rationale and combo as they are.
C31_FirstTruthy ==
  \A e \in MergeEvents :
    Len(imageSets) >= 1 =>
      LET stored == imageSets[1]
          merged == MergedEntry(imageSets, e)
      IN /\ merged.id = FirstTruthy(IdCandidates(e, stored))
         /\ merged.rationale = (IF e.rationale # None THEN e.rationale ELSE stored.rationale)
         /\ merged.combo = (IF e.combo \notin {None, ""} THEN e.combo ELSE stored.combo)
         /\ (e.id = None /\ e.image = NoImage
               /\ e.rationale = None /\ e.combo = None) =>
              /\ merged.id = stored.id
              /\ merged.rationale = stored.rationale
              /\ merged.combo = stored.combo

\* the entry of the first slot holds an id, a rationale and a combo that
\* events gave it, and a later event was merged into it
C31_Witness ==
  /\ Len(imageSets) = 1
  /\ imageSets[1].id = "p"
  /\ imageSets[1].rationale = "r"
  /\ imageSets[1].combo = "c"
  /\ 0 \in DOMAIN expect
  /\ expect[0].merged

-----------------------------------------------------------------------------
(* The edit of the selected entry *)

\* the entry is the submitted one with variants.edited set, its other
\* variants and fields kept
EditedFrom(after, entry) ==
  LET variants == IF "variants" \in DOMAIN entry THEN entry.variants ELSE <<>> IN
  /\ DOMAIN after = (DOMAIN entry) \cup {"variants"}
  /\ \A f \in (DOMAIN entry) \ {"variants"} : after[f] = entry[f]
  /\ DOMAIN after.variants = (DOMAIN variants) \cup {"edited"}
  /\ after.variants["edited"] = EditedVariant
  /\ \A t \in (DOMAIN variants) \ {"edited"} : after.variants[t] = variants[t]

\* C34: a successful edit response sets variants.edited of the entry that was
\* selected when the edit was submitted, keeps that entry's other variants and
\* fields and every other entry; a failed or empty response leaves imageSets
\* as it is; also when the collection or the selection changed meanwhile.
C34_EditOnlySubmittedEntry ==
  [][ (pendingEdit # NoEdit /\ pendingEdit' = NoEdit) =>
        IF nav'.resp = "edited"
        THEN /\ Len(imageSets') = Len(imageSets)
             /\ \A k \in 1..Len(imageSets) :
                  \/ imageSets'[k] = imageSets[k]
                  \/ /\ k = pendingEdit.index + 1
                     /\ imageSets[k] = pendingEdit.entry
                     /\ EditedFrom(imageSets'[k], pendingEdit.entry)
        ELSE imageSets' = imageSets ]_vars

\* the same while the collection holds the submitted entry at its index
C34_EditWhileEntryStays ==
  [][ (pendingEdit # NoEdit /\ pendingEdit' = NoEdit
       /\ pendingEdit.index < Len(imageSets)
       /\ imageSets[pendingEdit.index + 1] = pendingEdit.entry) =>
        IF nav'.resp = "edited"
        THEN /\ Len(imageSets') = Len(imageSets)
             /\ EditedFrom(imageSets'[pendingEdit.index + 1], pendingEdit.entry)
             /\ \A k \in 1..Len(imageSets) :
                  k # pendingEdit.index + 1 => imageSets'[k] = imageSets[k]
        ELSE imageSets' = imageSets ]_vars

====
